---- MODULE Spec2Model ----
(***************************************************************************)
(* Course creation and background lesson-image fulfilment of the course    *)
(* generator: the two course-creation routes (dashboard and experience),   *)
(* the media planner, the detached image worker and the generationStatus   *)
(* state machine it drives.                                                *)
(*                                                                         *)
(* Every await of the source is a step boundary.  External collaborators   *)
(* (storage, the image service, the planning model, the notification       *)
(* service) answer nondeterministically with every outcome the calling     *)
(* code distinguishes.  A storage call may throw wherever the source wraps *)
(* it in a try block; the recovery write in the worker's own catch clause  *)
(* is taken to succeed, as the source takes it.                            *)
(***************************************************************************)
EXTENDS Integers, Sequences, FiniteSets, TLC

\* ------------------------------------------------------------------------
\* Bounds and input sets
\* ------------------------------------------------------------------------

\* Creation requests in flight; each creates at most one course, so a course
\* is identified with the request that created it.
Requests == {"r1", "r2"}

Routes == {"dashboard", "experience"}

\* generateLessonImages as it arrives in the request body.
FlagValues == {"true", "false", "absent"}

\* Most images the planning model is given for one lesson in a raw plan.
MaxRawImages == 2

\* const maxRetries = 2
maxRetries == 2

Null == "null"

\* The company a course is created for: req.params.companyId on the
\* dashboard route, and on the experience route what
\* getCompanyIdFromExperience answered, an id or null.
CompanyIds(route) == IF route = "dashboard" THEN {"company"} ELSE {"company", Null}

\* An outline is a sequence of modules, a module a sequence of lessons, and
\* a lesson is modelled by the paragraph count of its content.
Outlines ==
  { << >>,
    << <<0>> >>,
    << <<1>> >>,
    << <<2, 1>> >>,
    << << >>, <<0>> >>,
    << <<1>>, <<2>> >> }

Truthy(v) == v = "true"

Min(a, b) == IF a < b THEN a ELSE b
Max(a, b) == IF a > b THEN a ELSE b
CeilDiv(a, b) == (a + b - 1) \div b

RECURSIVE SumSeq(_)
SumSeq(s) == IF s = << >> THEN 0 ELSE Head(s) + SumSeq(Tail(s))

RECURSIVE Flatten(_)
Flatten(ss) == IF ss = << >> THEN << >> ELSE Head(ss) \o Flatten(Tail(ss))

\* ------------------------------------------------------------------------
\* Media planner
\* ------------------------------------------------------------------------

paragraphCount(lesson) == lesson

totalLessons(outline) == SumSeq([i \in 1..Len(outline) |-> Len(outline[i])])

\* A prompt is the text the model wrote (numbered) or the text derived from
\* a lesson; NoPrompt is the empty string.
NoPrompt == [src |-> "none", of |-> 0]

generateFallbackImagePrompt(lesson) == [src |-> "fallback", of |-> lesson]

FallbackImage(lesson) ==
  [ imagePrompt |-> generateFallbackImagePrompt(lesson),
    imageAlt    |-> "Illustration",
    placement   |-> Max(1, paragraphCount(lesson)) ]

\* imagesAdded as the nested map of generateFallbackMediaPlan has it when it
\* reaches module mi (1-based here): one per earlier module that had a first
\* lesson while the target was not yet met.
RECURSIVE FallbackAddedBefore(_, _, _)
FallbackAddedBefore(outline, mi, target) ==
  IF mi <= 1 THEN 0
  ELSE LET before == FallbackAddedBefore(outline, mi - 1, target)
       IN  IF Len(outline[mi - 1]) > 0 /\ before < target
           THEN before + 1 ELSE before

\* Variant: one image for every module that has a first lesson.
generateFallbackMediaPlan_Uncapped(outline) ==
  [ mi \in 1..Len(outline) |->
    [ moduleIndex |-> mi - 1,
      lessons |->
        [ li \in 1..Len(outline[mi]) |->
          [ lessonIndex |-> li - 1,
            images |-> IF li = 1 THEN << FallbackImage(outline[mi][li]) >> ELSE << >> ] ] ] ]

generateFallbackMediaPlan(outline) ==
  LET targetImages == Min(Len(outline), CeilDiv(totalLessons(outline), 5))
  IN  [ mi \in 1..Len(outline) |->
        [ moduleIndex |-> mi - 1,
          lessons |->
            [ li \in 1..Len(outline[mi]) |->
              [ lessonIndex |-> li - 1,
                images |->
                  IF li = 1 /\ FallbackAddedBefore(outline, mi, targetImages) < targetImages
                  THEN << FallbackImage(outline[mi][li]) >>
                  ELSE << >> ] ] ] ]

\* Array.prototype.find: whether some element passes the test, and the first
\* one that does.
HasModulePlan(plans, moduleIndex) ==
  \E k \in 1..Len(plans) : plans[k].moduleIndex = moduleIndex

RECURSIVE FindModulePlan(_, _)
FindModulePlan(plans, moduleIndex) ==
  IF Head(plans).moduleIndex = moduleIndex THEN Head(plans)
  ELSE FindModulePlan(Tail(plans), moduleIndex)

HasLessonPlan(plans, lessonIndex) ==
  \E k \in 1..Len(plans) : plans[k].lessonIndex = lessonIndex

RECURSIVE FindLessonPlan(_, _)
FindLessonPlan(plans, lessonIndex) ==
  IF Head(plans).lessonIndex = lessonIndex THEN Head(plans)
  ELSE FindLessonPlan(Tail(plans), lessonIndex)

\* A raw lesson plan carries either an images array or the legacy flat
\* fields; a field the model left out is absent from the record.
HasImagesArray(lessonPlan) == "images" \in DOMAIN lessonPlan

LegacyWanted(lessonPlan) ==
  /\ "shouldAddImage" \in DOMAIN lessonPlan
  /\ lessonPlan.shouldAddImage
  /\ "imagePrompt" \in DOMAIN lessonPlan
  /\ lessonPlan.imagePrompt # NoPrompt

convertLesson(lesson, lessonIndex, modulePlan) ==
  LET lessonPlan == FindLessonPlan(modulePlan.lessons, lessonIndex)
  IN  IF ~HasLessonPlan(modulePlan.lessons, lessonIndex)
      THEN [lessonIndex |-> lessonIndex, images |-> << >>]
      ELSE IF HasImagesArray(lessonPlan)
      THEN [lessonIndex |-> lessonIndex, images |-> lessonPlan.images]
      ELSE IF LegacyWanted(lessonPlan)
      THEN [ lessonIndex |-> lessonIndex,
             images |-> << [ imagePrompt |-> lessonPlan.imagePrompt,
                             imageAlt    |-> IF "imageAlt" \in DOMAIN lessonPlan
                                                /\ lessonPlan.imageAlt # ""
                                             THEN lessonPlan.imageAlt
                                             ELSE "Illustration",
                             placement   |-> IF "placement" \in DOMAIN lessonPlan
                                                /\ lessonPlan.placement # 0
                                             THEN lessonPlan.placement
                                             ELSE Max(1, paragraphCount(lesson)) ] >> ]
      ELSE [lessonIndex |-> lessonIndex, images |-> << >>]

validatedPlan(outline, rawModules) ==
  [ mi \in 1..Len(outline) |->
    LET existingModulePlan == FindModulePlan(rawModules, mi - 1)
    IN  IF ~HasModulePlan(rawModules, mi - 1)
        THEN [ moduleIndex |-> mi - 1,
               lessons |-> generateFallbackMediaPlan(<< outline[mi] >>)[1].lessons ]
        ELSE [ moduleIndex |-> mi - 1,
               lessons |-> [ li \in 1..Len(outline[mi]) |->
                             convertLesson(outline[mi][li], li - 1, existingModulePlan) ] ] ]

totalImages(plan) ==
  SumSeq([ mi \in 1..Len(plan) |->
           SumSeq([ li \in 1..Len(plan[mi].lessons) |->
                    Len(plan[mi].lessons[li].images) ]) ])

\* Variant: the image is placed after the last paragraph, wherever that is.
safetyNet_LastParagraph(outline, plan) ==
  IF totalImages(plan) = 0 /\ Len(outline) > 0 /\ Len(outline[1]) > 0
  THEN [ plan EXCEPT ![1].lessons[1] =
           [ lessonIndex |-> 0,
             images |-> << [ FallbackImage(outline[1][1]) EXCEPT
                               !.placement = paragraphCount(outline[1][1]) ] >> ] ]
  ELSE plan

safetyNet(outline, plan) ==
  IF totalImages(plan) = 0 /\ Len(outline) > 0 /\ Len(outline[1]) > 0
  THEN [ plan EXCEPT ![1].lessons[1] =
           [ lessonIndex |-> 0, images |-> << FallbackImage(outline[1][1]) >> ] ]
  ELSE plan

\* raw is what the planning call produced: the call threw, the text was
\* empty, the text did not parse, or it parsed to a list of module plans.
generateCourseMediaPlan(outline, raw) ==
  IF raw.kind # "parsed"
  THEN generateFallbackMediaPlan(outline)
  ELSE safetyNet(outline, validatedPlan(outline, raw.modules))

\* ------------------------------------------------------------------------
\* What the planning call can answer
\* ------------------------------------------------------------------------

\* Images the planning model may write: a well-formed one, and one with an
\* empty alt text and the placement 0 it was told not to use.
RawImage(n) ==
  IF n % 2 = 1
  THEN [imagePrompt |-> [src |-> "ai", of |-> n], imageAlt |-> "a", placement |-> 2]
  ELSE [imagePrompt |-> [src |-> "ai", of |-> n], imageAlt |-> "",  placement |-> 0]

\* How the planning model may treat a lesson: an images array of n images,
\* or the legacy flat shape asking for one image.
RawLessonPlan(lessonIndex, legacy, n) ==
  IF legacy
  THEN [ lessonIndex |-> lessonIndex, shouldAddImage |-> TRUE,
         imagePrompt |-> [src |-> "ai", of |-> 0], imageAlt |-> "", placement |-> 0 ]
  ELSE [ lessonIndex |-> lessonIndex, images |-> [k \in 1..n |-> RawImage(k)] ]

\* The answers of the planning call the pipeline is run against: the call
\* throws, answers nothing, answers text that does not parse, or answers a
\* plan that lists the first `listed` modules and treats every lesson of
\* them in the same way.
RawResponses(outline) ==
  { [kind |-> k, modules |-> << >>] : k \in {"throw", "empty", "unparsable"} }
  \cup
  { [ kind |-> "parsed",
      modules |-> [ mi \in 1..listed |->
                    [ moduleIndex |-> mi - 1,
                      lessons |-> [ li \in 1..Len(outline[mi]) |->
                                    RawLessonPlan(li - 1, legacy, n) ] ] ] ] :
      listed \in 0..Len(outline), legacy \in BOOLEAN, n \in 0..MaxRawImages }

\* ------------------------------------------------------------------------
\* State
\* ------------------------------------------------------------------------

VARIABLES
  pc,               \* per request: where its handler stands
  body,             \* per request: route, outline and generateLessonImages
  inflight,         \* per request: storage create calls issued and not settled
  createdLessons,   \* per request: the handler's createdLessons list
  courses,          \* storage: course records
  modules,          \* storage: module records, as <<course, orderIndex>>
  lessons,          \* storage: lesson records -> their media list
  wpc,              \* per request: where its background worker stands
  mediaPlan,        \* worker: the plan generateCourseMediaPlan returned
  idx,              \* worker: position of the walk in the plan's images
  attempts,         \* worker: attempts of the current image
  imageUrl,         \* worker: imageUrl of the current image
  imagesGenerated,  \* worker: success counter
  imagesFailed,     \* worker: failure counter
  calls,            \* history: result of every image-service call, per image
  failed,           \* history: the images a failure was recorded for
  statusWrites,     \* history: worker writes of generationStatus performed
  notifications,    \* history: the notifications sent
  edit,             \* the media request of the course editor in progress
  editsDone,        \* media requests of the course editor served so far
  ppc,              \* planner: where a call of generateCourseMediaPlan stands
  pOutline,         \* planner: the modules it was called with
  pRaw,             \* planner: what the planning call answered
  pPlan,            \* planner: the plan built so far, then the plan returned
  gpc,              \* generator: where a call of generateWithFallback stands
  gCaller,          \* generator: the function that called it
  gNext,            \* generator: position in modelSequence of the next model
  gTried,           \* history: the generation calls issued and how each ended
  gLastError,       \* generator: lastError
  gResult,          \* generator: what generateWithFallback returned
  opc,              \* caller of generateWithFallback: where it stands
  oError,           \* caller: the error it threw
  oParsed,          \* caller: the value it returned
  oParses,          \* history: JSON.parse calls of the caller
  oRepairs,         \* history: repairJSON calls of the caller
  rpc,              \* repairJSON: where a run of the function stands
  rInput,           \* repairJSON: the text it was first called with
  rOnce,            \* repairJSON: its result on rInput
  rTwice,           \* repairJSON: its result on rOnce
  ipc,              \* image service: where a call of generateLessonImage stands
  iAttempt,         \* image service: attempt, the counter of the polling loop
  iPolls,           \* history: request-status fetches issued
  iResult,          \* image service: the value returned
  iThrown,          \* history: the step of the call that threw, if one did
  vpc,              \* per verify request: where its handler stands
  paymentStatus,    \* storage: status of the payment record of the checkout
  accessRows,       \* storage: course-access records of the buyer for the course
  creatorCredits,   \* history: addCreatorEarnings calls performed for the checkout
  platformCredits   \* history: addAdminEarnings calls performed for the checkout

handlerVars == << pc, body, inflight, createdLessons >>
storageVars == << courses, modules, lessons >>
loopVars    == << idx, attempts, imageUrl >>
countVars   == << imagesGenerated, imagesFailed >>
histVars    == << calls, failed, statusWrites, notifications >>
editVars    == << edit, editsDone >>
workerVars  == << wpc, mediaPlan, loopVars, countVars, histVars >>
plannerVars == << ppc, pOutline, pRaw, pPlan >>
callerVars  == << opc, oError, oParsed, oParses, oRepairs >>
generatorVars == << gpc, gCaller, gNext, gTried, gLastError, gResult, callerVars >>
repairVars  == << rpc, rInput, rOnce, rTwice >>
imageVars   == << ipc, iAttempt, iPolls, iResult, iThrown >>
paymentVars == << vpc, paymentStatus, accessRows, creatorCredits, platformCredits >>
serviceVars == << imageVars, paymentVars >>
unitVars    == << plannerVars, generatorVars, repairVars, serviceVars >>
pipelineVars == << handlerVars, storageVars, workerVars, editVars >>
vars == << pc, body, inflight, createdLessons, courses, modules, lessons,
           wpc, mediaPlan, idx, attempts, imageUrl, imagesGenerated,
           imagesFailed, calls, failed, statusWrites, notifications,
           edit, editsDone, plannerVars, generatorVars, repairVars, serviceVars >>

NoCourse == [generationStatus |-> "absent", published |-> FALSE, whopCompanyId |-> Null]
NoBody   == [route |-> "dashboard", outline |-> << >>, generateLessonImages |-> "absent",
             companyId |-> Null]
NoEdit   == [phase |-> "none", kind |-> "none", lesson |-> << >>, media |-> << >>]
NoRaw    == [kind |-> "none", modules |-> << >>]

\* No request was received, no worker runs, no editor request is in progress.
PipelineInit ==
  /\ pc = [r \in Requests |-> "idle"]
  /\ body = [r \in Requests |-> NoBody]
  /\ inflight = [r \in Requests |-> {}]
  /\ createdLessons = [r \in Requests |-> {}]
  /\ courses = [r \in Requests |-> NoCourse]
  /\ modules = {}
  /\ lessons = << >>
  /\ wpc = [r \in Requests |-> "none"]
  /\ mediaPlan = [r \in Requests |-> << >>]
  /\ idx = [r \in Requests |-> 0]
  /\ attempts = [r \in Requests |-> 0]
  /\ imageUrl = [r \in Requests |-> Null]
  /\ imagesGenerated = [r \in Requests |-> 0]
  /\ imagesFailed = [r \in Requests |-> 0]
  /\ calls = [r \in Requests |-> << >>]
  /\ failed = [r \in Requests |-> {}]
  /\ statusWrites = [r \in Requests |-> 0]
  /\ notifications = [r \in Requests |-> << >>]
  /\ edit = NoEdit
  /\ editsDone = 0

\* No call of generateCourseMediaPlan is looked at on its own.
PlannerIdle ==
  /\ ppc = "idle"
  /\ pOutline = << >>
  /\ pRaw = NoRaw
  /\ pPlan = << >>

NoError  == [kind |-> "none", model |-> "none"]
NoShape  == [isNull |-> TRUE, title |-> FALSE, payload |-> "missing"]
NoResponse == [text |-> << >>, shape |-> NoShape]
NoResult == [model |-> "none", groundingUsed |-> FALSE, response |-> NoResponse]

\* No call of generateWithFallback is looked at on its own.
GeneratorIdle ==
  /\ gpc = "idle"
  /\ gCaller = "none"
  /\ gNext = 0
  /\ gTried = << >>
  /\ gLastError = NoError
  /\ gResult = NoResult
  /\ opc = "idle"
  /\ oError = NoError
  /\ oParsed = NoShape
  /\ oParses = 0
  /\ oRepairs = 0

\* No run of repairJSON is looked at on its own.
RepairIdle ==
  /\ rpc = "idle"
  /\ rInput = << >>
  /\ rOnce = << >>
  /\ rTwice = << >>

\* No call of the image service is looked at on its own.
ImageIdle ==
  /\ ipc = "idle"
  /\ iAttempt = 0
  /\ iPolls = 0
  /\ iResult = Null
  /\ iThrown = "none"

\* The concurrent requests to POST /api/payments/:checkoutId/verify for one
\* checkout.
Verifiers == {"v1", "v2"}

\* The payment record of the checkout exists and is pending, the buyer has
\* no access to the course, and no verify request has arrived.
PaymentIdle ==
  /\ vpc = [v \in Verifiers |-> "idle"]
  /\ paymentStatus = "pending"
  /\ accessRows = 0
  /\ creatorCredits = 0
  /\ platformCredits = 0

\* No unit outside the creation pipeline, the planner, the generator and
\* repairJSON is at work.
ServiceIdle == ImageIdle /\ PaymentIdle

Init == PipelineInit /\ PlannerIdle /\ GeneratorIdle /\ RepairIdle /\ ServiceIdle

\* ------------------------------------------------------------------------
\* Storage
\* ------------------------------------------------------------------------

\* DatabaseStorage.updateCourse: findByIdAndUpdate sets the fields of the
\* update object and leaves the others; a missing course is left missing.
updateCourse(course, updates) ==
  IF course.generationStatus = "absent" THEN course
  ELSE [ f \in DOMAIN course |->
         IF f \in DOMAIN updates THEN updates[f] ELSE course[f] ]

\* Variant: the media list of the lesson is replaced by the new item.
addLessonMedia_Replaces(store, lessonId, media) ==
  IF lessonId \in DOMAIN store
  THEN [store EXCEPT ![lessonId] = << media >>]
  ELSE store

\* DatabaseStorage.addLessonMedia: $push of one item on the lesson, nothing
\* for a lesson that does not exist.
addLessonMedia(store, lessonId, media) ==
  IF lessonId \in DOMAIN store
  THEN [store EXCEPT ![lessonId] = Append(@, media)]
  ELSE store

\* ------------------------------------------------------------------------
\* Course-creation handler (POST .../courses, both routes)
\* ------------------------------------------------------------------------

\* Variant: every course starts "generating".
InitialStatus_Generating(generateLessonImages) == "generating"

\* generationStatus: generateLessonImages ? "generating" : "complete"
InitialStatus(generateLessonImages) ==
  IF Truthy(generateLessonImages) THEN "generating" ELSE "complete"

ModuleCall(mi) == [kind |-> "module", mi |-> mi, li |-> 0]
LessonCall(mi, li) == [kind |-> "lesson", mi |-> mi, li |-> li]

AllModuleCalls(outline) == { ModuleCall(mi - 1) : mi \in 1..Len(outline) }
AllLessonCalls(outline) ==
  UNION { { LessonCall(mi - 1, li - 1) : li \in 1..Len(outline[mi]) } : mi \in 1..Len(outline) }

AllLessonIndexes(outline) ==
  UNION { { << mi - 1, li - 1 >> : li \in 1..Len(outline[mi]) } : mi \in 1..Len(outline) }

\* Variant: the handler does not wait for the calls it issued.
AfterAwait_NoAwait(p, calls_) == IF p = "creating" THEN "read" ELSE p

\* The handler is past its Promise.all awaits once nothing is in flight.
AfterAwait(p, calls_) == IF p = "creating" /\ calls_ = {} THEN "read" ELSE p

\* The request arrives with a body that passes generatedCourseSchema; the
\* handler calls storage.createCourse.
ReceiveWith(r, routes, outlines) ==
  /\ pc[r] = "idle"
  /\ \E route \in routes, outline \in outlines, flag \in FlagValues :
       \E companyId \in CompanyIds(route) :
         body' = [body EXCEPT ![r] = [ route |-> route, outline |-> outline,
                                       generateLessonImages |-> flag,
                                       companyId |-> companyId ]]
  /\ pc' = [pc EXCEPT ![r] = "course"]
  /\ UNCHANGED << unitVars, inflight, createdLessons, storageVars, workerVars, editVars >>

ReceiveFrom(r, outlines) == ReceiveWith(r, Routes, outlines)

Receive(r) == ReceiveFrom(r, Outlines)

\* Variant: the course record is written before the body is looked at.
RejectInvalid_AfterCreate(r) ==
  /\ pc[r] = "idle"
  /\ pc' = [pc EXCEPT ![r] = "rejected"]
  /\ courses' = [courses EXCEPT ![r] =
                   [ generationStatus |-> "complete", published |-> FALSE,
                     whopCompanyId |-> "company" ]]
  /\ UNCHANGED << unitVars, body, inflight, createdLessons, modules, lessons, workerVars,
                  editVars >>

\* The body fails generatedCourseSchema.safeParse: 400, nothing is written.
RejectInvalid(r) ==
  /\ pc[r] = "idle"
  /\ pc' = [pc EXCEPT ![r] = "rejected"]
  /\ UNCHANGED << unitVars, body, inflight, createdLessons, storageVars, workerVars, editVars >>

\* Variant: the worker is scheduled as soon as the course record exists.
CreateCourse_Schedules(r) ==
  /\ pc[r] = "course"
  /\ courses' = [courses EXCEPT ![r] =
                   [ generationStatus |-> InitialStatus(body[r].generateLessonImages),
                     published |-> FALSE,
                     whopCompanyId |-> body[r].companyId ]]
  /\ inflight' = [inflight EXCEPT ![r] = AllModuleCalls(body[r].outline)]
  /\ pc' = [pc EXCEPT ![r] = AfterAwait("creating", inflight'[r])]
  /\ wpc' = [wpc EXCEPT ![r] =
               IF Truthy(body[r].generateLessonImages) THEN "scheduled" ELSE "none"]
  /\ UNCHANGED << unitVars, body, createdLessons, modules, lessons, mediaPlan, loopVars,
                  countVars, histVars, editVars >>

\* storage.createCourse resolves; the handler issues every createModule.
CreateCourse(r) ==
  /\ pc[r] = "course"
  /\ courses' = [courses EXCEPT ![r] =
                   [ generationStatus |-> InitialStatus(body[r].generateLessonImages),
                     published |-> FALSE,
                     whopCompanyId |-> body[r].companyId ]]
  /\ inflight' = [inflight EXCEPT ![r] = AllModuleCalls(body[r].outline)]
  /\ pc' = [pc EXCEPT ![r] = AfterAwait("creating", inflight'[r])]
  /\ UNCHANGED << unitVars, body, createdLessons, modules, lessons, workerVars, editVars >>

\* storage.createCourse rejects: the handler's catch answers 500.
CreateCourseFails(r) ==
  /\ pc[r] = "course"
  /\ pc' = [pc EXCEPT ![r] = "failed"]
  /\ UNCHANGED << unitVars, body, inflight, createdLessons, storageVars, workerVars, editVars >>

\* The createLesson calls a resolved createModule leads to.  Dashboard: the
\* handler issues every lesson once Promise.all of the modules resolved.
\* Experience: the module's own async function goes on to its first lesson.
LessonsIssuedAfterModule(r, mi, rest) ==
  IF body[r].route = "dashboard"
  THEN IF pc[r] = "creating" /\ rest = {}
       THEN AllLessonCalls(body[r].outline) ELSE {}
  ELSE IF Len(body[r].outline[mi + 1]) > 0 THEN { LessonCall(mi, 0) } ELSE {}

ModuleCreated(r, mi) ==
  /\ ModuleCall(mi) \in inflight[r]
  /\ modules' = modules \cup { << r, mi >> }
  /\ inflight' = [inflight EXCEPT ![r] =
                    (@ \ { ModuleCall(mi) })
                    \cup LessonsIssuedAfterModule(r, mi, @ \ { ModuleCall(mi) })]
  /\ pc' = [pc EXCEPT ![r] = AfterAwait(@, inflight'[r])]
  /\ UNCHANGED << unitVars, body, createdLessons, courses, lessons, workerVars, editVars >>

\* Experience: the module's async function goes on to its next lesson.
LessonsIssuedAfterLesson(r, mi, li) ==
  IF body[r].route = "experience" /\ li + 1 < Len(body[r].outline[mi + 1])
  THEN { LessonCall(mi, li + 1) } ELSE {}

\* Experience pushes each lesson as it is created; dashboard pushes the
\* results of Promise.all of the lessons at once.
CreatedLessonsAfter(r, mi, li, rest) ==
  IF body[r].route = "experience"
  THEN createdLessons[r] \cup { << mi, li >> }
  ELSE IF pc[r] = "creating" /\ rest = {}
       THEN AllLessonIndexes(body[r].outline) ELSE createdLessons[r]

LessonCreated(r, mi, li) ==
  /\ LessonCall(mi, li) \in inflight[r]
  /\ lessons' = lessons @@ (<< r, mi, li >> :> << >>)
  /\ inflight' = [inflight EXCEPT ![r] =
                    (@ \ { LessonCall(mi, li) }) \cup LessonsIssuedAfterLesson(r, mi, li)]
  /\ createdLessons' = [createdLessons EXCEPT ![r] =
                          CreatedLessonsAfter(r, mi, li, inflight'[r])]
  /\ pc' = [pc EXCEPT ![r] = AfterAwait(@, inflight'[r])]
  /\ UNCHANGED << unitVars, body, courses, modules, workerVars, editVars >>

\* A createModule or createLesson rejects: nothing is written for it, the
\* handler's catch answers 500 (once); calls already issued still settle.
CreateFails(r, call) ==
  /\ call \in inflight[r]
  /\ inflight' = [inflight EXCEPT ![r] = @ \ { call }]
  /\ pc' = [pc EXCEPT ![r] = IF @ = "creating" THEN "failed" ELSE @]
  /\ UNCHANGED << unitVars, body, createdLessons, storageVars, workerVars, editVars >>

\* Whether the handler schedules the background worker after res.json.
WorkerScheduled(generateLessonImages) == Truthy(generateLessonImages)

\* storage.getCourseWithModules resolves; res.json sends the course; then
\* setImmediate schedules the worker when generateLessonImages is truthy.
Respond(r) ==
  /\ pc[r] = "read"
  /\ pc' = [pc EXCEPT ![r] = "responded"]
  /\ wpc' = [wpc EXCEPT ![r] =
               IF WorkerScheduled(body[r].generateLessonImages) THEN "scheduled" ELSE "none"]
  /\ UNCHANGED << unitVars, body, inflight, createdLessons, storageVars, mediaPlan,
                  loopVars, countVars, histVars, editVars >>

\* storage.getCourseWithModules rejects: 500, no worker is scheduled.
ReadFails(r) ==
  /\ pc[r] = "read"
  /\ pc' = [pc EXCEPT ![r] = "failed"]
  /\ UNCHANGED << unitVars, body, inflight, createdLessons, storageVars, workerVars, editVars >>

\* ------------------------------------------------------------------------
\* Background worker (the setImmediate callback, both routes)
\* ------------------------------------------------------------------------

\* The worker's own normalisation of a lesson plan to an images array.
imagePlans(lessonPlan) ==
  IF HasImagesArray(lessonPlan) THEN lessonPlan.images
  ELSE IF LegacyWanted(lessonPlan)
  THEN << [ imagePrompt |-> lessonPlan.imagePrompt,
            imageAlt    |-> IF "imageAlt" \in DOMAIN lessonPlan
                            THEN lessonPlan.imageAlt ELSE "",
            placement   |-> IF "placement" \in DOMAIN lessonPlan
                            THEN lessonPlan.placement ELSE 0 ] >>
  ELSE << >>

\* The images the nested loops of the worker visit, in the order they visit
\* them: module by module, lesson by lesson, image by image, skipping a
\* lesson without images and a lesson createdLessons.find does not find.
LessonEntries(modulePlan, lessonPlan, created) ==
  IF << modulePlan.moduleIndex, lessonPlan.lessonIndex >> \in created
  THEN [ k \in 1..Len(imagePlans(lessonPlan)) |->
         [ moduleIndex |-> modulePlan.moduleIndex,
           lessonIndex |-> lessonPlan.lessonIndex,
           imagePlan   |-> imagePlans(lessonPlan)[k] ] ]
  ELSE << >>

\* Variant: the walk visits the images of the plan from the last to the first.
PlanEntries_Reversed(plan, created) ==
  LET e == Flatten([ mi \in 1..Len(plan) |->
                     Flatten([ li \in 1..Len(plan[mi].lessons) |->
                               LessonEntries(plan[mi], plan[mi].lessons[li], created) ]) ])
  IN  [ k \in 1..Len(e) |-> e[Len(e) + 1 - k] ]

PlanEntries(plan, created) ==
  Flatten([ mi \in 1..Len(plan) |->
            Flatten([ li \in 1..Len(plan[mi].lessons) |->
                      LessonEntries(plan[mi], plan[mi].lessons[li], created) ]) ])

Entries(r) == PlanEntries(mediaPlan[r], createdLessons[r])

\* Variant: the loop goes on after a URL was returned.
ShouldRetry_Always(url, n) == n < maxRetries

\* Variant: the loop allows one attempt more.
ShouldRetry_Extra(url, n) == url = Null /\ n < maxRetries + 1

\* while (!imageUrl && attempts < maxRetries)
ShouldRetry(url, n) == url = Null /\ n < maxRetries

\* Variant: the appended item does not keep the prompt of the plan entry.
newMedia_NoPrompt(r, k, imagePlan, url) ==
  [ id        |-> << r, k >>,
    type      |-> "image",
    url       |-> url,
    alt       |-> imagePlan.imageAlt,
    caption   |-> "",
    placement |-> imagePlan.placement,
    prompt    |-> NoPrompt ]

\* The item the worker appends for the image at position k of its walk;
\* randomUUID() gives every item an id of its own.
newMedia(r, k, imagePlan, url) ==
  [ id        |-> << r, k >>,
    type      |-> "image",
    url       |-> url,
    alt       |-> imagePlan.imageAlt,
    caption   |-> "",
    placement |-> imagePlan.placement,
    prompt    |-> imagePlan.imagePrompt ]

\* The setImmediate callback starts and calls generateCourseMediaPlan.
WorkerStart(r) ==
  /\ wpc[r] = "scheduled"
  /\ wpc' = [wpc EXCEPT ![r] = "planning"]
  /\ UNCHANGED << unitVars, handlerVars, storageVars, mediaPlan, loopVars, countVars,
                  histVars, editVars >>

\* generateCourseMediaPlan returns (it never throws); the walk starts.
PlanReturns(r) ==
  /\ wpc[r] = "planning"
  /\ \E raw \in RawResponses(body[r].outline) :
       mediaPlan' = [mediaPlan EXCEPT ![r] = generateCourseMediaPlan(body[r].outline, raw)]
  /\ wpc' = [wpc EXCEPT ![r] = "walk"]
  /\ idx' = [idx EXCEPT ![r] = 1]
  /\ attempts' = [attempts EXCEPT ![r] = 0]
  /\ imageUrl' = [imageUrl EXCEPT ![r] = Null]
  /\ imagesGenerated' = [imagesGenerated EXCEPT ![r] = 0]
  /\ imagesFailed' = [imagesFailed EXCEPT ![r] = 0]
  /\ calls' = [calls EXCEPT ![r] =
                 [k \in 1..Len(PlanEntries(mediaPlan'[r], createdLessons[r])) |-> << >>]]
  /\ UNCHANGED << unitVars, handlerVars, storageVars, failed, statusWrites, notifications,
                  editVars >>

\* One pass of the retry loop: generateLessonImage answers a URL or null,
\* or the try body throws (imageUrl stays null); a failed attempt that is
\* not the last is followed by the fixed delay.
ImageCall(r) ==
  /\ wpc[r] = "walk"
  /\ idx[r] <= Len(Entries(r))
  /\ ShouldRetry(imageUrl[r], attempts[r])
  /\ attempts' = [attempts EXCEPT ![r] = @ + 1]
  /\ \E outcome \in {"url", "null", "throw"} :
       /\ imageUrl' = [imageUrl EXCEPT ![r] = IF outcome = "url" THEN "url" ELSE Null]
       /\ calls' = [calls EXCEPT ![r][idx[r]] = Append(@, imageUrl'[r])]
  /\ UNCHANGED << unitVars, handlerVars, storageVars, wpc, mediaPlan, idx, countVars,
                  failed, statusWrites, notifications, editVars >>

LoopLeft(r) ==
  /\ wpc[r] = "walk"
  /\ idx[r] <= Len(Entries(r))
  /\ ~ShouldRetry(imageUrl[r], attempts[r])

NextImage(r) ==
  /\ idx' = [idx EXCEPT ![r] = @ + 1]
  /\ attempts' = [attempts EXCEPT ![r] = 0]
  /\ imageUrl' = [imageUrl EXCEPT ![r] = Null]

\* if (imageUrl): storage.addLessonMedia resolves, imagesGenerated++.
AppendMedia(r) ==
  /\ LoopLeft(r)
  /\ imageUrl[r] # Null
  /\ LET e == Entries(r)[idx[r]]
     IN  lessons' = addLessonMedia(lessons, << r, e.moduleIndex, e.lessonIndex >>,
                                   newMedia(r, idx[r], e.imagePlan, imageUrl[r]))
  /\ imagesGenerated' = [imagesGenerated EXCEPT ![r] = @ + 1]
  /\ NextImage(r)
  /\ UNCHANGED << unitVars, handlerVars, courses, modules, wpc, mediaPlan, imagesFailed,
                  histVars, editVars >>

\* storage.addLessonMedia rejects: the walk is left for the outer catch.
AppendThrows(r) ==
  /\ LoopLeft(r)
  /\ imageUrl[r] # Null
  /\ wpc' = [wpc EXCEPT ![r] = "catch"]
  /\ UNCHANGED << unitVars, handlerVars, storageVars, mediaPlan, loopVars, countVars,
                  histVars, editVars >>

\* Variant: a failed image ends the walk.
RecordFailure_Aborts(r) ==
  /\ LoopLeft(r)
  /\ imageUrl[r] = Null
  /\ imagesFailed' = [imagesFailed EXCEPT ![r] = @ + 1]
  /\ failed' = [failed EXCEPT ![r] = @ \cup { idx[r] }]
  /\ wpc' = [wpc EXCEPT ![r] = "catch"]
  /\ UNCHANGED << unitVars, handlerVars, storageVars, mediaPlan, loopVars, imagesGenerated,
                  calls, statusWrites, notifications, editVars >>

\* else: imagesFailed++.
RecordFailure(r) ==
  /\ LoopLeft(r)
  /\ imageUrl[r] = Null
  /\ imagesFailed' = [imagesFailed EXCEPT ![r] = @ + 1]
  /\ failed' = [failed EXCEPT ![r] = @ \cup { idx[r] }]
  /\ NextImage(r)
  /\ UNCHANGED << unitVars, handlerVars, storageVars, wpc, mediaPlan, imagesGenerated,
                  calls, statusWrites, notifications, editVars >>

\* Variant: the walk may be left for the status update at any image.
WalkDone_Early(r) == wpc[r] = "walk" /\ ~ShouldRetry(imageUrl[r], attempts[r])

WalkDone(r) == wpc[r] = "walk" /\ idx[r] > Len(Entries(r))

\* After the walk: storage.updateCourse(course.id, {generationStatus: "complete"}).
CompleteCourse(r) ==
  /\ WalkDone(r)
  /\ courses' = [courses EXCEPT ![r] = updateCourse(@, [generationStatus |-> "complete"])]
  /\ statusWrites' = [statusWrites EXCEPT ![r] = @ + 1]
  /\ wpc' = [wpc EXCEPT ![r] = "notify"]
  /\ UNCHANGED << unitVars, handlerVars, modules, lessons, mediaPlan, loopVars, countVars,
                  calls, failed, notifications, editVars >>

\* That updateCourse rejects: the outer catch takes over.
CompleteThrows(r) ==
  /\ WalkDone(r)
  /\ wpc' = [wpc EXCEPT ![r] = "catch"]
  /\ UNCHANGED << unitVars, handlerVars, storageVars, mediaPlan, loopVars, countVars,
                  histVars, editVars >>

\* Variant: the outer catch leaves the status alone.
CatchComplete_NoWrite(r) ==
  /\ wpc[r] = "catch"
  /\ wpc' = [wpc EXCEPT ![r] = "catchNotify"]
  /\ UNCHANGED << unitVars, handlerVars, storageVars, mediaPlan, loopVars, countVars,
                  histVars, editVars >>

\* The outer catch: storage.updateCourse(course.id, {generationStatus: "complete"}).
CatchComplete(r) ==
  /\ wpc[r] = "catch"
  /\ courses' = [courses EXCEPT ![r] = updateCourse(@, [generationStatus |-> "complete"])]
  /\ statusWrites' = [statusWrites EXCEPT ![r] = @ + 1]
  /\ wpc' = [wpc EXCEPT ![r] = "catchNotify"]
  /\ UNCHANGED << unitVars, handlerVars, modules, lessons, mediaPlan, loopVars, countVars,
                  calls, failed, notifications, editVars >>

\* Variant: every notification is the one of a finished walk.
NotificationTitle_Ready(path) == "Course Ready!"

\* The notification a path of the worker sends: "Course Ready!" with the
\* success count after the walk, "Course Created" (images may have to be
\* added manually) from the outer catch.
NotificationTitle(path) == IF path = "notify" THEN "Course Ready!" ELSE "Course Created"

\* Variant: the notification after the walk has no try block of its own.
Notify_Unguarded(r) ==
  /\ wpc[r] \in {"notify", "catchNotify"}
  /\ \E outcome \in {"sent", "noCompany", "throws"} :
       /\ notifications' = [notifications EXCEPT ![r] =
                              IF outcome = "sent"
                              THEN Append(@, [ title  |-> NotificationTitle(wpc[r]),
                                               images |-> imagesGenerated[r] ])
                              ELSE @]
       /\ wpc' = [wpc EXCEPT ![r] =
                    IF outcome = "throws" /\ wpc[r] = "notify" THEN "catch" ELSE "done"]
  /\ UNCHANGED << unitVars, handlerVars, storageVars, mediaPlan, loopVars, countVars,
                  calls, failed, statusWrites, editVars >>

\* The try around the notification: the company lookup answers an id and
\* sendNotification resolves, or the lookup answers null, or either throws.
Notify(r) ==
  /\ wpc[r] \in {"notify", "catchNotify"}
  /\ \E outcome \in {"sent", "noCompany", "throws"} :
       notifications' = [notifications EXCEPT ![r] =
                           IF outcome = "sent"
                           THEN Append(@, [ title  |-> NotificationTitle(wpc[r]),
                                            images |-> imagesGenerated[r] ])
                           ELSE @]
  /\ wpc' = [wpc EXCEPT ![r] = "done"]
  /\ UNCHANGED << unitVars, handlerVars, storageVars, mediaPlan, loopVars, countVars,
                  calls, failed, statusWrites, editVars >>

\* ------------------------------------------------------------------------
\* Other requests on a course (course editor)
\* ------------------------------------------------------------------------

\* Requests of the course editor served in one run of the model.
MaxEdits == 1

\* Variant: the handler passes the whole body on.
PatchFields_All(reqBody) == reqBody

\* PATCH .../courses/:courseId: of the fields of the body the handler passes
\* on only those it destructures (here: published).
PatchFields(reqBody) == [ f \in DOMAIN reqBody \cap {"published"} |-> reqBody[f] ]

PatchBodies ==
  { [published |-> TRUE],
    [generationStatus |-> "generating"],
    [published |-> TRUE, generationStatus |-> "generating"] }

PatchCourse(r) ==
  /\ courses[r].generationStatus # "absent"
  /\ \E reqBody \in PatchBodies :
       courses' = [courses EXCEPT ![r] = updateCourse(@, PatchFields(reqBody))]
  /\ UNCHANGED << unitVars, handlerVars, modules, lessons, workerVars, editVars >>

\* DatabaseStorage.updateLesson with {media}: the list is replaced whole.
updateLessonMedia(store, lessonId, media) ==
  IF lessonId \in DOMAIN store THEN [store EXCEPT ![lessonId] = media] ELSE store

manualMedia(n) ==
  [ id |-> << "manual", n >>, type |-> "image", url |-> "url", alt |-> "",
    caption |-> "", placement |-> 0, prompt |-> NoPrompt ]

RECURSIVE WithoutId(_, _)
WithoutId(media, id) ==
  IF media = << >> THEN << >>
  ELSE IF Head(media).id = id THEN WithoutId(Tail(media), id)
  ELSE << Head(media) >> \o WithoutId(Tail(media), id)

\* POST .../lessons/:lessonId/media and DELETE .../media/:mediaId: the
\* handler reads the lesson with storage.getLesson ...
EditRead(lessonId, kind) ==
  /\ edit.phase = "none"
  /\ editsDone < MaxEdits
  /\ lessonId \in DOMAIN lessons
  /\ edit' = [phase |-> "read", kind |-> kind, lesson |-> lessonId,
              media |-> lessons[lessonId]]
  /\ UNCHANGED << unitVars, handlerVars, storageVars, workerVars, editsDone >>

\* ... and writes the whole media list back with storage.updateLesson: the
\* list it read plus the new item, or the list it read without the item.
EditWrite ==
  /\ edit.phase = "read"
  /\ \/ /\ edit.kind = "add"
        /\ lessons' = updateLessonMedia(lessons, edit.lesson,
                                        Append(edit.media, manualMedia(editsDone)))
     \/ /\ edit.kind = "delete"
        /\ \E k \in 1..Len(edit.media) :
             lessons' = updateLessonMedia(lessons, edit.lesson,
                                          WithoutId(edit.media, edit.media[k].id))
  /\ edit' = NoEdit
  /\ editsDone' = editsDone + 1
  /\ UNCHANGED << unitVars, handlerVars, courses, modules, workerVars >>

\* DatabaseStorage.deleteLesson: findByIdAndDelete.
deleteLesson(store, lessonId) ==
  [ id \in DOMAIN store \ {lessonId} |-> store[id] ]

\* DELETE .../lessons/:lessonId: the lesson is deleted, whatever run or
\* request still holds its id.
DeleteLesson(lessonId) ==
  /\ editsDone < MaxEdits
  /\ lessonId \in DOMAIN lessons
  /\ lessons' = deleteLesson(lessons, lessonId)
  /\ editsDone' = editsDone + 1
  /\ UNCHANGED << unitVars, handlerVars, courses, modules, workerVars, edit >>

\* ------------------------------------------------------------------------
\* Specifications
\* ------------------------------------------------------------------------

\* The requests the specifications run.
Active == {"r1"}

HandlerProgress(r) ==
  \/ CreateCourse(r)
  \/ CreateCourseFails(r)
  \/ \E call \in inflight[r] : call.kind = "module" /\ ModuleCreated(r, call.mi)
  \/ \E call \in inflight[r] : call.kind = "lesson" /\ LessonCreated(r, call.mi, call.li)
  \/ \E call \in inflight[r] : CreateFails(r, call)
  \/ Respond(r)
  \/ ReadFails(r)

HandlerStep(r) ==
  \/ Receive(r)
  \/ RejectInvalid(r)
  \/ HandlerProgress(r)

WorkerStep(r) ==
  \/ WorkerStart(r)
  \/ PlanReturns(r)
  \/ ImageCall(r)
  \/ AppendMedia(r)
  \/ AppendThrows(r)
  \/ RecordFailure(r)
  \/ CompleteCourse(r)
  \/ CompleteThrows(r)
  \/ CatchComplete(r)
  \/ Notify(r)

EditorStep ==
  \/ \E r \in Active : PatchCourse(r)
  \/ \E lessonId \in DOMAIN lessons, kind \in {"add", "delete"} : EditRead(lessonId, kind)
  \/ EditWrite
  \/ \E lessonId \in DOMAIN lessons : DeleteLesson(lessonId)

Next == \E r \in Active : HandlerStep(r) \/ WorkerStep(r)

\* The creation pipeline alone.
Spec == Init /\ [][Next]_vars

\* The pipeline under the scheduling of the runtime: a pending await of a
\* handler or of a worker is eventually resumed.
FairSpec ==
  /\ Spec
  /\ \A r \in Active : WF_vars(HandlerProgress(r)) /\ WF_vars(WorkerStep(r))

\* The outlines of the courses the editor works on: an empty course and a
\* course of one lesson.
EditedOutlines == { outline \in Outlines : totalLessons(outline) <= 1 /\ Len(outline) <= 1 }

ReceiveEdited(r) == ReceiveFrom(r, EditedOutlines)

NextOps ==
  \/ \E r \in Active :
       ReceiveEdited(r) \/ RejectInvalid(r) \/ HandlerProgress(r) \/ WorkerStep(r)
  \/ EditorStep

\* The pipeline together with the requests of the course editor.
SpecOps == Init /\ [][NextOps]_vars

\* The outline of the courses created side by side, both on the dashboard
\* route: one lesson.
PairOutlines == { outline \in Outlines : outline = << <<1>> >> }

ReceivePair(r) == ReceiveWith(r, {"dashboard"}, PairOutlines)

NextPair ==
  \E r \in Requests :
    ReceivePair(r) \/ RejectInvalid(r) \/ HandlerProgress(r) \/ WorkerStep(r)

\* Two creation requests, their handlers and their workers interleaved.
SpecPair == Init /\ [][NextPair]_vars

\* ------------------------------------------------------------------------
\* generateCourseMediaPlan on its own
\* ------------------------------------------------------------------------

\* How a parsed answer may treat one lesson: leave it out, give it an
\* images array of n images, or use the legacy flat shape, with a prompt or
\* with an empty one.
LessonStyles ==
  { [kind |-> "missing", n |-> 0], [kind |-> "legacy", n |-> 0],
    [kind |-> "legacyNoPrompt", n |-> 0] }
  \cup { [kind |-> "images", n |-> n] : n \in 0..MaxRawImages }

RawLessonFor(lessonIndex, style) ==
  IF style.kind = "images" THEN RawLessonPlan(lessonIndex, FALSE, style.n)
  ELSE IF style.kind = "legacy" THEN RawLessonPlan(lessonIndex, TRUE, 0)
  ELSE [ lessonIndex |-> lessonIndex, shouldAddImage |-> TRUE, imagePrompt |-> NoPrompt ]

\* The lesson plans of a module plan, the lessons left out skipped.
RECURSIVE RawLessons(_, _)
RawLessons(styles, li) ==
  IF li > Len(styles) THEN << >>
  ELSE (IF styles[li].kind = "missing" THEN << >>
        ELSE << RawLessonFor(li - 1, styles[li]) >>) \o RawLessons(styles, li + 1)

\* How a parsed answer may treat one module: leave it out, or list it with
\* a style for each of its lessons.
ModuleStyles(lessons_) ==
  { [listed |-> FALSE, styles |-> << >>] }
  \cup { [listed |-> TRUE, styles |-> st] : st \in [1..Len(lessons_) -> LessonStyles] }

RECURSIVE RawModules(_, _)
RawModules(ms, mi) ==
  IF mi > Len(ms) THEN << >>
  ELSE (IF ms[mi].listed
        THEN << [ moduleIndex |-> mi - 1, lessons |-> RawLessons(ms[mi].styles, 1) ] >>
        ELSE << >>) \o RawModules(ms, mi + 1)

\* The parsed answers generateCourseMediaPlan is run against for an outline.
RawPlans(outline) ==
  LET all == UNION { ModuleStyles(outline[mi]) : mi \in 1..Len(outline) }
      choices == { ms \in [1..Len(outline) -> all] :
                     \A mi \in 1..Len(outline) : ms[mi] \in ModuleStyles(outline[mi]) }
  IN  { [kind |-> "parsed", modules |-> RawModules(ms, 1)] : ms \in choices }

\* generateCourseMediaPlan was called with the modules of an outline and
\* awaits generateWithFallback.
PlannerInit ==
  /\ PipelineInit
  /\ ServiceIdle
  /\ GeneratorIdle
  /\ RepairIdle
  /\ ppc = "called"
  /\ pOutline \in Outlines
  /\ pRaw = NoRaw
  /\ pPlan = << >>

PlannerReturnsFallback(kind) ==
  /\ pRaw' = [kind |-> kind, modules |-> << >>]
  /\ pPlan' = generateFallbackMediaPlan(pOutline)
  /\ ppc' = "returned"

\* generateWithFallback rejects: the catch clause returns the fallback plan.
PlanCallThrows ==
  /\ ppc = "called"
  /\ PlannerReturnsFallback("throw")
  /\ UNCHANGED << pOutline, pipelineVars, serviceVars, generatorVars, repairVars >>

\* if (!text) return generateFallbackMediaPlan(...)
PlanEmptyText ==
  /\ ppc = "called"
  /\ PlannerReturnsFallback("empty")
  /\ UNCHANGED << pOutline, pipelineVars, serviceVars, generatorVars, repairVars >>

\* The call answers a text, the fences are stripped; JSON.parse comes next.
PlanText ==
  /\ ppc = "called"
  /\ pRaw' \in RawPlans(pOutline) \cup { [kind |-> "unparsable", modules |-> << >>] }
  /\ ppc' = "parse"
  /\ UNCHANGED << pOutline, pPlan, pipelineVars, serviceVars, generatorVars, repairVars >>

\* Variant: the error of JSON.parse reaches the caller.
PlanParseFails_Rethrows ==
  /\ ppc = "parse"
  /\ pRaw.kind = "unparsable"
  /\ ppc' = "threw"
  /\ UNCHANGED << pOutline, pRaw, pPlan, pipelineVars, serviceVars, generatorVars, repairVars >>

\* JSON.parse throws: the catch clause returns the fallback plan.
PlanParseFails ==
  /\ ppc = "parse"
  /\ pRaw.kind = "unparsable"
  /\ PlannerReturnsFallback("unparsable")
  /\ UNCHANGED << pOutline, pipelineVars, serviceVars, generatorVars, repairVars >>

\* JSON.parse answers; the parsed plan is converted and validated.
PlanValidate ==
  /\ ppc = "parse"
  /\ pRaw.kind = "parsed"
  /\ pPlan' = validatedPlan(pOutline, pRaw.modules)
  /\ ppc' = "validated"
  /\ UNCHANGED << pOutline, pRaw, pipelineVars, serviceVars, generatorVars, repairVars >>

\* The single fallback image for a plan without images, then the return.
PlanSafetyNet ==
  /\ ppc = "validated"
  /\ pPlan' = safetyNet(pOutline, pPlan)
  /\ ppc' = "returned"
  /\ UNCHANGED << pOutline, pRaw, pipelineVars, serviceVars, generatorVars, repairVars >>

PlannerNext ==
  \/ PlanCallThrows
  \/ PlanEmptyText
  \/ PlanText
  \/ PlanParseFails
  \/ PlanValidate
  \/ PlanSafetyNet

\* One call of generateCourseMediaPlan, for every outline and every answer.
PlannerSpec == PlannerInit /\ [][PlannerNext]_vars

\* ------------------------------------------------------------------------
\* Response texts, JSON.parse and repairJSON
\* ------------------------------------------------------------------------

\* Longest text looked at.
MaxTextLen == 4

\* A text is a sequence of characters.  JSON.parse and repairJSON tell
\* apart the double quote, the backslash and every other character; Letter
\* stands for a character that is neither and that no escape ends with.
Quote == "quote"
Backslash == "backslash"
Letter == "letter"
Chars == {Quote, Backslash, Letter}

RECURSIVE TextsOfLen(_)
TextsOfLen(n) ==
  IF n = 0 THEN { << >> }
  ELSE { Append(t, c) : t \in TextsOfLen(n - 1), c \in Chars }

\* A text stands for the string literal of a JSON document in which the
\* model wrote its prose; the rest of the document is taken as well formed.
Texts == UNION { TextsOfLen(n) : n \in 0..MaxTextLen }

\* The text from position i on is the rest of a string literal: characters
\* and the escapes \" and \\, up to a closing quote that ends the text.
RECURSIVE LiteralRest(_, _)
LiteralRest(text, i) ==
  IF i > Len(text) THEN FALSE
  ELSE IF text[i] = Quote THEN i = Len(text)
  ELSE IF text[i] = Backslash
  THEN i + 1 <= Len(text) /\ text[i + 1] \in {Quote, Backslash} /\ LiteralRest(text, i + 2)
  ELSE LiteralRest(text, i + 1)

\* Whether JSON.parse accepts the text.
JSONParses(text) == Len(text) >= 1 /\ text[1] = Quote /\ LiteralRest(text, 2)

\* Variant: every quote between the first and the last character gets a
\* backslash in front of it.
repairJSON_EscapesEvery(jsonStr) ==
  LET Piece(i) == IF jsonStr[i] = Quote /\ i > 1 /\ i < Len(jsonStr)
                  THEN << Backslash, Quote >> ELSE << jsonStr[i] >>
  IN  Flatten([ i \in 1..Len(jsonStr) |-> Piece(i) ])

\* The loop of repairJSON from position i on, with its three locals.
RECURSIVE repairScan(_, _, _, _, _)
repairScan(jsonStr, i, inString, escapedNext, result) ==
  IF i > Len(jsonStr) THEN result
  ELSE LET char == jsonStr[i]
           prevChar == IF i > 1 THEN jsonStr[i - 1] ELSE ""
       IN  IF escapedNext
           THEN repairScan(jsonStr, i + 1, inString, FALSE, Append(result, char))
           ELSE IF char = Backslash
           THEN repairScan(jsonStr, i + 1, inString, TRUE, Append(result, char))
           ELSE IF char = Quote
           THEN repairScan(jsonStr, i + 1, ~inString, FALSE, Append(result, char))
           ELSE IF inString /\ char = Quote /\ prevChar # Backslash
           THEN repairScan(jsonStr, i + 1, inString, FALSE,
                           Append(Append(result, Backslash), Quote))
           ELSE repairScan(jsonStr, i + 1, inString, FALSE, Append(result, char))

repairJSON(jsonStr) == repairScan(jsonStr, 1, FALSE, FALSE, << >>)

\* ------------------------------------------------------------------------
\* generateWithFallback and generateCourse on their own
\* ------------------------------------------------------------------------

GROUNDING_MODELS == << "gemini-2.5-pro", "gemini-2.5-flash" >>

FALLBACK_MODELS == << "gemini-2.5-flash-lite" >>

\* GROUNDING_MODELS.includes(model)
isGroundingModel(model) == \E i \in 1..Len(GROUNDING_MODELS) : GROUNDING_MODELS[i] = model

\* Variant: the grounded tier always comes first.
modelSequence_GroundedFirst(useGrounding) == GROUNDING_MODELS \o FALLBACK_MODELS

modelSequence(useGrounding) ==
  IF useGrounding THEN GROUNDING_MODELS \o FALLBACK_MODELS
  ELSE FALLBACK_MODELS \o GROUNDING_MODELS

\* The callers looked at and the useGrounding they pass: generateCourse,
\* regenerateModule and regenerateLesson ask for grounding,
\* generateCourseMediaPlan leaves the default (false).
Callers == {"generateCourse", "regenerateModule", "regenerateLesson",
            "generateCourseMediaPlan"}

\* The callers whose handling of the response is followed here; that of
\* generateCourseMediaPlan is followed in PlannerSpec.
ContentCallers == {"generateCourse", "regenerateModule", "regenerateLesson"}

useGrounding(caller) == caller \in ContentCallers

\* What a rejected generateContent is told apart by in the catch clause.
ErrorKinds == {"overloaded", "rateLimited", "badRequest", "other"}

\* What generateCourse throws from its own catch clause:
\* new Error("Failed to generate course content. Please try again.")
GenericError == [kind |-> "generic", model |-> "none"]

\* What the parsed value of a response looks like to its caller: JSON null,
\* or an object with or without the title the caller asked for
\* (course_title, module_title, lesson_title) and with its payload (modules,
\* lessons, content) absent, empty, present with an element that lacks its
\* own list, or complete.
Shapes ==
  { NoShape } \cup
  { [isNull |-> FALSE, title |-> t, payload |-> pl] :
      t \in BOOLEAN, pl \in {"missing", "empty", "malformed", "full"} }

\* The responses generateContent may resolve with: response.text after the
\* trim and the removal of the fences, and what it parses to when it does.
Responses ==
  { [text |-> t, shape |-> IF JSONParses(t) THEN sh ELSE NoShape] :
      t \in Texts, sh \in Shapes }

\* A caller has called generateWithFallback; the loop is at its first model.
GeneratorInit ==
  /\ PipelineInit
  /\ ServiceIdle
  /\ PlannerIdle
  /\ RepairIdle
  /\ gpc = "loop"
  /\ gCaller \in Callers
  /\ gNext = 1
  /\ gTried = << >>
  /\ gLastError = NoError
  /\ gResult = NoResult
  /\ opc = IF gCaller \in ContentCallers THEN "awaiting" ELSE "idle"
  /\ oError = NoError
  /\ oParsed = NoShape
  /\ oParses = 0
  /\ oRepairs = 0

\* The model the loop stands on, and whether its call uses grounding.
CurrentModel == modelSequence(useGrounding(gCaller))[gNext]

\* Variant: grounding on every attempt of a call that asked for it.
shouldUseGrounding_Requested(model) == useGrounding(gCaller)

shouldUseGrounding(model) == useGrounding(gCaller) /\ isGroundingModel(model)

InLoop == gpc = "loop" /\ gNext <= Len(modelSequence(useGrounding(gCaller)))

\* ai.models.generateContent resolves: return { response, model, groundingUsed }.
ModelAnswers ==
  /\ InLoop
  /\ gTried' = Append(gTried, [ model |-> CurrentModel,
                                grounded |-> shouldUseGrounding(CurrentModel),
                                outcome |-> "ok" ])
  /\ \E response \in Responses :
       gResult' = [ model |-> CurrentModel,
                    groundingUsed |-> shouldUseGrounding(CurrentModel),
                    response |-> response ]
  /\ gpc' = "returned"
  /\ UNCHANGED << pipelineVars, serviceVars, plannerVars, repairVars, gCaller, gNext, gLastError,
                  callerVars >>

\* ai.models.generateContent rejects: lastError = error; continue.
ModelFails ==
  /\ InLoop
  /\ \E kind \in ErrorKinds :
       /\ gLastError' = [kind |-> kind, model |-> CurrentModel]
       /\ gTried' = Append(gTried, [ model |-> CurrentModel,
                                     grounded |-> shouldUseGrounding(CurrentModel),
                                     outcome |-> kind ])
  /\ gNext' = gNext + 1
  /\ UNCHANGED << pipelineVars, serviceVars, plannerVars, repairVars, gpc, gCaller, gResult,
                  callerVars >>

\* The loop is over: throw lastError.
AllModelsFailed ==
  /\ gpc = "loop"
  /\ gNext > Len(modelSequence(useGrounding(gCaller)))
  /\ gpc' = "threw"
  /\ UNCHANGED << pipelineVars, serviceVars, plannerVars, repairVars, gCaller, gNext, gTried,
                  gLastError, gResult, callerVars >>

\* What a caller does with the response, as one outcome: whether it
\* returned or threw, with which error and value, after how many calls of
\* JSON.parse and of repairJSON.
Thrown(error, p) ==
  [ pc |-> "threw", error |-> error, parsed |-> NoShape,
    parses |-> p.parses, repairs |-> p.repairs ]

Returned(shape, p) ==
  [ pc |-> "returned", error |-> NoError, parsed |-> shape,
    parses |-> p.parses, repairs |-> p.repairs ]

NotParsed == [ok |-> FALSE, parses |-> 0, repairs |-> 0]

\* Variant: a second repair after the repaired text failed to parse.
parseWithRepair_Twice(jsonText) ==
  IF JSONParses(jsonText) THEN [ok |-> TRUE, parses |-> 1, repairs |-> 0]
  ELSE IF JSONParses(repairJSON(jsonText)) THEN [ok |-> TRUE, parses |-> 2, repairs |-> 1]
  ELSE [ ok |-> JSONParses(repairJSON(repairJSON(jsonText))), parses |-> 3, repairs |-> 2 ]

\* try { JSON.parse(jsonText) } catch { JSON.parse(repairJSON(jsonText)) }
parseWithRepair(jsonText) ==
  IF JSONParses(jsonText) THEN [ok |-> TRUE, parses |-> 1, repairs |-> 0]
  ELSE [ ok |-> JSONParses(repairJSON(jsonText)), parses |-> 2, repairs |-> 1 ]

\* const result = JSON.parse(jsonText.trim())
parseOnce(jsonText) == [ok |-> JSONParses(jsonText), parses |-> 1, repairs |-> 0]

\* generateCourse goes on when course_title is truthy and modules is an
\* array; its log line then reads m.lessons.length of every module.
courseAccepted(shape) ==
  ~shape.isNull /\ shape.title /\ shape.payload \in {"empty", "full"}

\* regenerateModule reads result.module_title and result.lessons.length.
moduleAccepted(shape) == ~shape.isNull /\ shape.payload # "missing"

\* regenerateLesson reads result.lesson_title.
lessonAccepted(shape) == ~shape.isNull

\* generateCourse after generateWithFallback returned: whatever is thrown
\* is caught by its catch clause and replaced by the generic error.
generateCourseOutcome(response) ==
  IF response.text = << >> THEN Thrown(GenericError, NotParsed)
  ELSE LET p == parseWithRepair(response.text)
       IN  IF ~p.ok THEN Thrown(GenericError, p)
           ELSE IF ~courseAccepted(response.shape) THEN Thrown(GenericError, p)
           ELSE Returned(response.shape, p)

\* regenerateModule and regenerateLesson after generateWithFallback
\* returned: whatever is thrown is logged and thrown again.
regenerateOutcome(caller, response) ==
  IF response.text = << >>
  THEN Thrown([kind |-> "empty_response", model |-> "none"], NotParsed)
  ELSE LET p == parseOnce(response.text)
           accepted == IF caller = "regenerateModule"
                       THEN moduleAccepted(response.shape)
                       ELSE lessonAccepted(response.shape)
       IN  IF ~p.ok THEN Thrown([kind |-> "parse_error", model |-> "none"], p)
           ELSE IF ~accepted THEN Thrown([kind |-> "type_error", model |-> "none"], p)
           ELSE Returned(response.shape, p)

callerOutcome(caller, response) ==
  IF caller = "generateCourse" THEN generateCourseOutcome(response)
  ELSE regenerateOutcome(caller, response)

\* The caller after generateWithFallback returned: the response is handled
\* without a further await, and the caller returns or throws.
OutlineProcessed ==
  /\ opc = "awaiting"
  /\ gpc = "returned"
  /\ LET o == callerOutcome(gCaller, gResult.response)
     IN  /\ opc' = o.pc
         /\ oError' = o.error
         /\ oParsed' = o.parsed
         /\ oParses' = o.parses
         /\ oRepairs' = o.repairs
  /\ UNCHANGED << pipelineVars, serviceVars, plannerVars, repairVars, gpc, gCaller, gNext, gTried,
                  gLastError, gResult >>

\* The caller after generateWithFallback threw: generateCourse logs the
\* error and throws the generic one, the other two throw the error on.
OutlineGenerationFails ==
  /\ opc = "awaiting"
  /\ gpc = "threw"
  /\ opc' = "threw"
  /\ oError' = IF gCaller = "generateCourse" THEN GenericError ELSE gLastError
  /\ UNCHANGED << pipelineVars, serviceVars, plannerVars, repairVars, gpc, gCaller, gNext, gTried,
                  gLastError, gResult, oParsed, oParses, oRepairs >>

GeneratorNext ==
  \/ ModelAnswers
  \/ ModelFails
  \/ AllModelsFailed
  \/ OutlineProcessed
  \/ OutlineGenerationFails

\* One call of generateWithFallback by each of its callers.
GeneratorSpec == GeneratorInit /\ [][GeneratorNext]_vars

\* ------------------------------------------------------------------------
\* Making a course from the dashboard: generate the outline, post the course
\* ------------------------------------------------------------------------

\* POST .../courses/generate arrives: without a topic string it answers 400;
\* with one it calls generateCourse, which calls generateWithFallback.
GenerateRequest ==
  /\ opc = "idle"
  /\ gpc = "idle"
  /\ \E topicGiven \in BOOLEAN :
       IF topicGiven
       THEN /\ opc' = "awaiting"
            /\ gpc' = "loop"
            /\ gCaller' = "generateCourse"
            /\ gNext' = 1
       ELSE /\ opc' = "badRequest"
            /\ UNCHANGED << gpc, gCaller, gNext >>
  /\ UNCHANGED << pipelineVars, serviceVars, plannerVars, repairVars, gTried, gLastError, gResult,
                  oError, oParsed, oParses, oRepairs >>

\* The generate request was answered: with the outline (generateCourse
\* returned), with 500 (it threw) or with 400.
GenerateAnswered == opc \in {"returned", "threw", "badRequest"}

\* The dashboard then posts a course, with a body that passes the schema or
\* with one that does not.
PostCourse(r) == GenerateAnswered /\ ReceivePair(r)

PostInvalid(r) == GenerateAnswered /\ RejectInvalid(r)

NextCreate ==
  \/ GenerateRequest
  \/ GeneratorNext
  \/ \E r \in Active : PostCourse(r) \/ PostInvalid(r) \/ HandlerProgress(r)

\* The generate route followed by the handler of the creation route.
SpecCreate == Init /\ [][NextCreate]_vars

\* ------------------------------------------------------------------------
\* repairJSON on its own
\* ------------------------------------------------------------------------

\* repairJSON was called with a text.
RepairInit ==
  /\ PipelineInit
  /\ ServiceIdle
  /\ PlannerIdle
  /\ GeneratorIdle
  /\ rpc = "called"
  /\ rInput \in Texts
  /\ rOnce = << >>
  /\ rTwice = << >>

\* repairJSON returns; it is called again with what it returned.
RepairFirst ==
  /\ rpc = "called"
  /\ rOnce' = repairJSON(rInput)
  /\ rpc' = "once"
  /\ UNCHANGED << pipelineVars, serviceVars, plannerVars, generatorVars, rInput, rTwice >>

\* The second call returns.
RepairAgain ==
  /\ rpc = "once"
  /\ rTwice' = repairJSON(rOnce)
  /\ rpc' = "twice"
  /\ UNCHANGED << pipelineVars, serviceVars, plannerVars, generatorVars, rInput, rOnce >>

RepairNext ==
  \/ RepairFirst
  \/ RepairAgain

\* repairJSON applied, and applied again to its result, for every text.
RepairSpec == RepairInit /\ [][RepairNext]_vars

\* ------------------------------------------------------------------------
\* One call of the image service (generateLessonImage)
\* ------------------------------------------------------------------------

\* const maxAttempts = 60
maxAttempts == 60

\* Variant: the loop allows one status fetch more.
LoopGoesOn_Inclusive(attempt) == attempt <= maxAttempts

\* for (let attempt = 0; attempt < maxAttempts; attempt++)
LoopGoesOn(attempt) == attempt < maxAttempts

\* generateCourseImageWithDeAPI returns value; generateLessonImage awaits it.
ImageReturn(value) ==
  /\ iResult' = value
  /\ ipc' = "returning"

\* generateLessonImage(prompt) calls generateCourseImageWithDeAPI, which
\* returns null without an API key and otherwise posts the request.
ImageRequest ==
  /\ ipc = "idle"
  /\ \E apiKey \in BOOLEAN :
       IF apiKey THEN ipc' = "submit" /\ iResult' = iResult
       ELSE ImageReturn(Null)
  /\ UNCHANGED << pipelineVars, plannerVars, generatorVars, repairVars, paymentVars,
                  iAttempt, iPolls, iThrown >>

\* The txt2img fetch settles: a request id (the loop is entered with
\* attempt = 0 and sleeps), a response that is not ok, a body without a
\* request id, or a throw of fetch or of json().
SubmitAnswers ==
  /\ ipc = "submit"
  /\ \E outcome \in {"requestId", "notOk", "noRequestId", "throws"} :
       /\ IF outcome = "requestId"
          THEN ipc' = "sleep" /\ iResult' = iResult
          ELSE ImageReturn(Null)
       /\ iThrown' = IF outcome = "throws" THEN "submit" ELSE iThrown
  /\ iAttempt' = 0
  /\ UNCHANGED << pipelineVars, plannerVars, generatorVars, repairVars, paymentVars, iPolls >>

\* await sleep(pollInterval) resolves; the request-status fetch is issued.
Sleep ==
  /\ ipc = "sleep"
  /\ ipc' = "poll"
  /\ iPolls' = iPolls + 1
  /\ UNCHANGED << pipelineVars, plannerVars, generatorVars, repairVars, paymentVars,
                  iAttempt, iResult, iThrown >>

\* The end of one pass of the loop without a return: attempt++, then the
\* next pass sleeps, or the loop is over and the function returns null.
NextPoll ==
  /\ iAttempt' = iAttempt + 1
  /\ IF LoopGoesOn(iAttempt + 1)
     THEN ipc' = "sleep" /\ iResult' = iResult
     ELSE ImageReturn(Null)

\* The request-status fetch settles: not ok (continue), still processing,
\* done with a result URL (the download fetch is issued), done without
\* one, failed, or a throw of fetch or of json().
PollAnswers ==
  /\ ipc = "poll"
  /\ \E outcome \in {"notOk", "processing", "done", "doneNoUrl", "failed", "throws"} :
       /\ CASE outcome \in {"notOk", "processing"} -> NextPoll
            [] outcome = "done" ->
                 ipc' = "download" /\ iResult' = iResult /\ iAttempt' = iAttempt
            [] OTHER -> ImageReturn(Null) /\ iAttempt' = iAttempt
       /\ iThrown' = IF outcome = "throws" THEN "poll" ELSE iThrown
  /\ UNCHANGED << pipelineVars, plannerVars, generatorVars, repairVars, paymentVars, iPolls >>

\* The download of the image settles: the data URL, or the URL of the
\* service when the response is not ok or when fetch or arrayBuffer()
\* throws (the inner catch).
DownloadAnswers ==
  /\ ipc = "download"
  /\ \E outcome \in {"ok", "notOk", "throws"} :
       /\ ImageReturn(IF outcome = "ok" THEN "dataUrl" ELSE "resultUrl")
       /\ iThrown' = IF outcome = "throws" THEN "download" ELSE iThrown
  /\ UNCHANGED << pipelineVars, plannerVars, generatorVars, repairVars, paymentVars,
                  iAttempt, iPolls >>

\* generateLessonImage returns what generateCourseImageWithDeAPI returned.
LessonImageReturns ==
  /\ ipc = "returning"
  /\ ipc' = "returned"
  /\ UNCHANGED << pipelineVars, plannerVars, generatorVars, repairVars, paymentVars,
                  iAttempt, iPolls, iResult, iThrown >>

ImageNext ==
  \/ ImageRequest
  \/ SubmitAnswers
  \/ Sleep
  \/ PollAnswers
  \/ DownloadAnswers
  \/ LessonImageReturns

\* One call of generateLessonImage, for every answer of the service.
ImageSpec == Init /\ [][ImageNext]_vars

\* The call under the scheduling of the runtime: the timer of sleep fires
\* and every fetch settles.
ImageFairSpec == ImageSpec /\ WF_vars(ImageNext)

\* ------------------------------------------------------------------------
\* Payment verification (POST /api/payments/:checkoutId/verify)
\* ------------------------------------------------------------------------

\* DatabaseStorage.grantCourseAccess: CourseAccessModel.create, rejected by
\* the unique index on (courseId, userId) when the record exists.
grantCourseAccess(rows) ==
  IF rows = 0 THEN [rows |-> 1, error |-> FALSE] ELSE [rows |-> rows, error |-> TRUE]

\* A step of the handler that throws ends in its catch: 500.
VerifyThrows(v) ==
  /\ vpc[v] \in {"lookup", "verify", "access", "grant", "status", "creator", "admin"}
  /\ vpc' = [vpc EXCEPT ![v] = "failed"]
  /\ UNCHANGED << pipelineVars, plannerVars, generatorVars, repairVars, imageVars,
                  paymentStatus, accessRows, creatorCredits, platformCredits >>

\* The request arrives: storage.getPaymentByCheckoutId is called.
VerifyReceive(v) ==
  /\ vpc[v] = "idle"
  /\ vpc' = [vpc EXCEPT ![v] = "lookup"]
  /\ UNCHANGED << pipelineVars, plannerVars, generatorVars, repairVars, imageVars,
                  paymentStatus, accessRows, creatorCredits, platformCredits >>

\* The payment record is read: 403 for another user, "already processed"
\* for a completed payment; with a paymentId in the body the access is
\* looked up, without one verifyPaymentComplete is called.
PaymentRead(v) ==
  /\ vpc[v] = "lookup"
  /\ \E user \in {"buyer", "other"}, paymentId \in BOOLEAN :
       vpc' = [vpc EXCEPT ![v] =
                 IF user # "buyer" THEN "rejected"
                 ELSE IF paymentStatus = "completed" THEN "done"
                 ELSE IF paymentId THEN "access"
                 ELSE "verify"]
  /\ UNCHANGED << pipelineVars, plannerVars, generatorVars, repairVars, imageVars,
                  paymentStatus, accessRows, creatorCredits, platformCredits >>

\* verifyPaymentComplete answers: success, or 400 "not yet completed".
VerifyAnswered(v) ==
  /\ vpc[v] = "verify"
  /\ \E success \in BOOLEAN :
       vpc' = [vpc EXCEPT ![v] = IF success THEN "access" ELSE "rejected"]
  /\ UNCHANGED << pipelineVars, plannerVars, generatorVars, repairVars, imageVars,
                  paymentStatus, accessRows, creatorCredits, platformCredits >>

\* storage.getCourseAccess answers: if (!existing) grantCourseAccess is
\* called, otherwise updatePaymentStatus.
AccessRead(v) ==
  /\ vpc[v] = "access"
  /\ vpc' = [vpc EXCEPT ![v] = IF accessRows = 0 THEN "grant" ELSE "status"]
  /\ UNCHANGED << pipelineVars, plannerVars, generatorVars, repairVars, imageVars,
                  paymentStatus, accessRows, creatorCredits, platformCredits >>

\* grantCourseAccess settles; a duplicate-key error goes to the catch.
AccessGranted(v) ==
  /\ vpc[v] = "grant"
  /\ accessRows' = grantCourseAccess(accessRows).rows
  /\ vpc' = [vpc EXCEPT ![v] = IF grantCourseAccess(accessRows).error THEN "failed"
                               ELSE "status"]
  /\ UNCHANGED << pipelineVars, plannerVars, generatorVars, repairVars, imageVars,
                  paymentStatus, creatorCredits, platformCredits >>

\* storage.updatePaymentStatus(payment.id, "completed", paymentId).
StatusUpdated(v) ==
  /\ vpc[v] = "status"
  /\ paymentStatus' = "completed"
  /\ vpc' = [vpc EXCEPT ![v] = "creator"]
  /\ UNCHANGED << pipelineVars, plannerVars, generatorVars, repairVars, imageVars,
                  accessRows, creatorCredits, platformCredits >>

\* storage.addCreatorEarnings(payment.creatorId, 70% of the amount).
CreatorCredited(v) ==
  /\ vpc[v] = "creator"
  /\ creatorCredits' = creatorCredits + 1
  /\ vpc' = [vpc EXCEPT ![v] = "admin"]
  /\ UNCHANGED << pipelineVars, plannerVars, generatorVars, repairVars, imageVars,
                  paymentStatus, accessRows, platformCredits >>

\* storage.addAdminEarnings(30% of the amount), then the success response.
PlatformCredited(v) ==
  /\ vpc[v] = "admin"
  /\ platformCredits' = platformCredits + 1
  /\ vpc' = [vpc EXCEPT ![v] = "done"]
  /\ UNCHANGED << pipelineVars, plannerVars, generatorVars, repairVars, imageVars,
                  paymentStatus, accessRows, creatorCredits >>

PaymentNext ==
  \E v \in Verifiers :
    \/ VerifyReceive(v)
    \/ PaymentRead(v)
    \/ VerifyAnswered(v)
    \/ AccessRead(v)
    \/ AccessGranted(v)
    \/ StatusUpdated(v)
    \/ CreatorCredited(v)
    \/ PlatformCredited(v)
    \/ VerifyThrows(v)

\* Two verify requests for one checkout, their steps interleaved.
PaymentSpec == Init /\ [][PaymentNext]_vars

\* ------------------------------------------------------------------------
\* Properties
\* ------------------------------------------------------------------------

Status(r) == courses[r].generationStatus

Requested(r) == Truthy(body[r].generateLessonImages)

\* The images of the plan the walk of r has left behind it.
Settled(r) == { k \in 1..Len(calls[r]) : k < idx[r] }

\* No call made for image k of r answered a URL.
AllCallsFailed(r, k) == \A j \in 1..Len(calls[r][k]) : calls[r][k][j] = Null

LessonOf(r, k) == << r, Entries(r)[k].moduleIndex, Entries(r)[k].lessonIndex >>

MediaIds(lessonId) == { lessons[lessonId][j].id : j \in 1..Len(lessons[lessonId]) }

\* The items with the given id in the media list of a lesson.
Copies(lessonId, id) ==
  Cardinality({ j \in 1..Len(lessons[lessonId]) : lessons[lessonId][j].id = id })

\* C1: every course created with generationStatus "generating" eventually
\* reaches "complete".
C1_EventuallyComplete ==
  \A r \in Requests : (Status(r) = "generating") ~> (Status(r) = "complete")

\* C2: once the generationStatus of a course is "complete", no step of the
\* worker, of a course PATCH or of a media edit sets it back to "generating".
C2_NeverReverts ==
  [][ \A r \in Requests :
        Status(r) = "complete" => courses'[r].generationStatus # "generating" ]_vars

\* A complete course that went through a run, was patched and had its media
\* edited.
C2_Witness ==
  \E r \in Requests :
    /\ Requested(r) /\ wpc[r] = "done" /\ Status(r) = "complete"
    /\ courses[r].published /\ editsDone > 0

C4_GeneratingOnlyIfRequested ==
  \A r \in Requests :
    /\ Status(r) = "generating" => Requested(r)
    /\ Status(r) # "absent" /\ ~Requested(r) => Status(r) = "complete"
    /\ wpc[r] # "none" => Requested(r)

\* A course created without the request, its creation answered.
C4_Witness ==
  \E r \in Requests :
    /\ pc[r] = "responded" /\ ~Requested(r) /\ Status(r) = "complete"
    /\ body[r].outline # << >>

\* C5: the planning call and every image request of a worker come after the
\* response of its creation request.
C5_ResponseBeforeWorker ==
  \A r \in Requests :
    wpc[r] \notin {"none", "scheduled"} \/ mediaPlan[r] # << >> \/ calls[r] # << >>
      => pc[r] = "responded"

\* The planning call of a worker is in progress.
C5_Witness == \E r \in Requests : wpc[r] = "planning"

\* How a step changes the media list of a lesson of course r: not at all,
\* or by appending one item.
AppendedOne(lessonId) ==
  /\ Len(lessons'[lessonId]) = Len(lessons[lessonId]) + 1
  /\ SubSeq(lessons'[lessonId], 1, Len(lessons[lessonId])) = lessons[lessonId]

OnlyAppendsOne(r) ==
  /\ courses'[r].generationStatus # "absent"
  /\ modules' = modules
  /\ DOMAIN lessons' = DOMAIN lessons
  /\ \A id \in DOMAIN lessons : lessons'[id] = lessons[id] \/ AppendedOne(id)
  /\ Cardinality({ id \in DOMAIN lessons : lessons'[id] # lessons[id] }) <= 1

AllStored(r) ==
  /\ Status(r) # "absent"
  /\ \A mi \in 1..Len(body[r].outline) :
       /\ << r, mi - 1 >> \in modules
       /\ \A li \in 1..Len(body[r].outline[mi]) : << r, mi - 1, li - 1 >> \in DOMAIN lessons

\* C6: when the creation response is sent, the course, all its modules and
\* all its lessons are in storage, and from then on a step of the pipeline
\* creates or removes none of them: it appends one media item to one lesson
\* or leaves the lessons as they are.
C6_CreatedBeforeResponse ==
  /\ [](\A r \in Requests : pc[r] = "responded" => AllStored(r))
  /\ [][ \A r \in Requests : pc[r] = "responded" => OnlyAppendsOne(r) ]_vars

\* A responded course with two modules whose worker has appended an image.
C6_Witness ==
  \E r \in Requests :
    /\ pc[r] = "responded" /\ Len(body[r].outline) = 2
    /\ imagesGenerated[r] > 0
    /\ \E id \in DOMAIN lessons : lessons[id] # << >>

FailedImages(r) == { k \in Settled(r) : AllCallsFailed(r, k) }

\* The walk of r was left for the outer catch.
Aborted(r) ==
  wpc[r] \in {"catch", "catchNotify"} \/ (wpc[r] = "done" /\ idx[r] <= Len(calls[r]))

FailuresRecorded(r) ==
  /\ failed[r] = FailedImages(r)
  /\ imagesFailed[r] = Cardinality(failed[r])
  /\ imagesGenerated[r] + imagesFailed[r] = Cardinality(Settled(r))
  /\ \A k \in failed[r] : \A j \in Settled(r) : j > k => Len(calls[r][j]) >= 1
  /\ Aborted(r) /\ idx[r] <= Len(calls[r]) => imageUrl[r] # Null
  /\ wpc[r] = "notify" => Settled(r) = 1..Len(calls[r])

FailureMovesOn(r) ==
  LoopLeft(r) /\ imageUrl[r] = Null /\ workerVars' # workerVars =>
    /\ wpc'[r] = "walk"
    /\ idx'[r] = idx[r] + 1
    /\ imagesFailed'[r] = imagesFailed[r] + 1
    /\ failed'[r] = failed[r] \cup { idx[r] }
    /\ lessons' = lessons

AddedIds(r, lessonId) ==
  { << r, k >> : k \in { j \in Settled(r) : LessonOf(r, j) = lessonId /\ ~AllCallsFailed(r, j) } }

\* C9 as stated: an image whose first two calls failed is in the media list
\* of its lesson once the walk has passed it, and no failure is recorded
\* for it.
C9_ThirdAttemptSucceeds ==
  \A r \in Requests : \A k \in Settled(r) :
    Len(calls[r][k]) >= 2 /\ calls[r][k][1] = Null /\ calls[r][k][2] = Null =>
      /\ << r, k >> \in MediaIds(LessonOf(r, k))
      /\ k \notin failed[r]

\* C9 amended: an image whose first call failed and whose second (and last)
\* call answered a URL is added once to its lesson and no failure is
\* recorded for it; the media of every lesson are exactly the images added
\* for it; after two failed calls no third call is made, the failure is
\* recorded and the image is not added.
C9_RetrySucceeds ==
  \A r \in Requests :
    /\ \A k \in 1..Len(calls[r]) : Len(calls[r][k]) <= maxRetries
    /\ \A k \in Settled(r) :
         /\ calls[r][k] = << Null, "url" >> =>
              Copies(LessonOf(r, k), << r, k >>) = 1 /\ k \notin failed[r]
         /\ calls[r][k] = << Null, Null >> =>
              Copies(LessonOf(r, k), << r, k >>) = 0 /\ k \in failed[r]
    /\ \A lessonId \in DOMAIN lessons :
         lessonId[1] = r /\ calls[r] # << >> => MediaIds(lessonId) = AddedIds(r, lessonId)

\* A finished run whose only image failed once and was then added.
C9_Witness ==
  \E r \in Requests :
    /\ wpc[r] = "done" /\ Len(calls[r]) = 1 /\ calls[r][1] = << Null, "url" >>
    /\ lessons[LessonOf(r, 1)] # << >>
    /\ failed[r] = {}

\* Every call of the finished run of r failed, every planned image was
\* called for, and the notification of the run was delivered.
AllImagesFailed(r) ==
  /\ wpc[r] = "done"
  /\ Len(calls[r]) >= 1
  /\ \A k \in 1..Len(calls[r]) : Len(calls[r][k]) >= 1 /\ AllCallsFailed(r, k)
  /\ notifications[r] # << >>

\* C10: when every call for every planned image fails, the course is
\* "complete", the media list of every lesson is empty and the one
\* notification sent is the "Course Created" one (images can be added
\* manually).
C10_AllFailManualAdd ==
  \A r \in Requests :
    AllImagesFailed(r) =>
      /\ Status(r) = "complete"
      /\ \A lessonId \in DOMAIN lessons : lessonId[1] = r => lessons[lessonId] = << >>
      /\ Len(notifications[r]) = 1
      /\ notifications[r][1].title = "Course Created"

\* Calls of the image service a run has made so far.
TotalCalls(c) == SumSeq([ k \in 1..Len(c) |-> Len(c[k]) ])

\* The images the walk visits come module by module, lesson by lesson.
EntriesInPlanOrder(r) ==
  \A i, j \in 1..Len(Entries(r)) :
    i < j =>
      \/ Entries(r)[i].moduleIndex < Entries(r)[j].moduleIndex
      \/ /\ Entries(r)[i].moduleIndex = Entries(r)[j].moduleIndex
         /\ Entries(r)[i].lessonIndex <= Entries(r)[j].lessonIndex

WalkInOrder(r) ==
  /\ calls[r] # << >> => Len(calls[r]) = Len(Entries(r))
  /\ EntriesInPlanOrder(r)
  /\ \A k \in 1..Len(calls[r]) : k > idx[r] => calls[r][k] = << >>
  /\ \A lessonId \in DOMAIN lessons :
       lessonId[1] = r =>
         \A i, j \in 1..Len(lessons[lessonId]) :
           i < j => lessons[lessonId][i].id[2] < lessons[lessonId][j].id[2]

OneCallAtATime(r) ==
  /\ idx'[r] >= idx[r]
  /\ TotalCalls(calls'[r]) <= TotalCalls(calls[r]) + 1
  /\ TotalCalls(calls'[r]) = TotalCalls(calls[r]) + 1 =>
       /\ wpc[r] = "walk" /\ idx'[r] = idx[r]
       /\ Len(calls'[r][idx[r]]) = Len(calls[r][idx[r]]) + 1
  /\ wpc[r] = "walk" /\ lessons' # lessons =>
       /\ idx[r] <= Len(Entries(r))
       /\ lessons' = [ lessons EXCEPT ![LessonOf(r, idx[r])] =
                         Append(@, newMedia(r, idx[r], Entries(r)[idx[r]].imagePlan, "url")) ]
       /\ idx'[r] = idx[r] + 1

\* C11: the images of a run are called for and appended in the order of the
\* plan (module, then lesson, then image of the lesson): the walk never goes
\* back, no call is made for an image ahead of it, the media of a lesson
\* are in the order of its images, and a step makes at most one call, for
\* the image the walk stands on, whose answer it waits for.
C11_PlanOrderOneAtATime ==
  /\ [](\A r \in Requests : WalkInOrder(r))
  /\ [][ \A r \in Requests : OneCallAtATime(r) ]_vars

\* A finished run that added images to lessons of two modules.
C11_Witness ==
  \E r \in Requests :
    /\ wpc[r] = "done" /\ Len(body[r].outline) = 2
    /\ \E i, j \in Settled(r) :
         /\ i < j
         /\ Entries(r)[i].moduleIndex < Entries(r)[j].moduleIndex
         /\ Copies(LessonOf(r, i), << r, i >>) = 1
         /\ Copies(LessonOf(r, j), << r, j >>) = 1

\* The run of r stands at its notification or is past it.
AtOrPastNotification(r) == wpc[r] \in {"notify", "catchNotify", "done"}

\* C12: the course is "complete" before the notification step starts, and
\* the step, whatever its outcome (sent, no company found, a throw of the
\* lookup or of sendNotification), ends the run without writing the course.
C12_NotificationFailureSwallowed ==
  /\ [](\A r \in Requests : AtOrPastNotification(r) => Status(r) = "complete")
  /\ [][ \A r \in Requests :
           AtOrPastNotification(r) =>
             /\ courses'[r] = courses[r]
             /\ statusWrites'[r] = statusWrites[r]
             /\ wpc'[r] \in {wpc[r], "done"} ]_vars

\* A finished run whose notification was not delivered.
C12_Witness ==
  \E r \in Requests :
    /\ wpc[r] = "done" /\ notifications[r] = << >>
    /\ Status(r) = "complete" /\ statusWrites[r] = 1

\* The notifications a run that went through its catch clause may have sent:
\* none (the lookup found no company, or the notification threw) or the one
\* "Course Created" notification.
SofterNotificationOnly(r) ==
  /\ Len(notifications[r]) <= 1
  /\ \A n \in 1..Len(notifications[r]) : notifications[r][n].title = "Course Created"

C14_PlannerNeverFails ==
  /\ ppc \in {"idle", "called", "parse", "validated", "returned"}
  /\ ppc = "returned" =>
    /\ pPlan = generateCourseMediaPlan(pOutline, pRaw)
    /\ Len(pPlan) = Len(pOutline)
    /\ \A mi \in 1..Len(pPlan) : Len(pPlan[mi].lessons) = Len(pOutline[mi])
    /\ pRaw.kind \in {"throw", "empty", "unparsable"} =>
         pPlan = generateFallbackMediaPlan(pOutline)

\* The call returned after an answer that did not parse, for an outline of
\* two modules.
C14_Witness ==
  /\ ppc = "returned" /\ pRaw.kind = "unparsable"
  /\ Len(pOutline) = 2 /\ totalImages(pPlan) >= 1

\* Images the parsed answer asked for, over all the lessons it lists.
RawImageCount(raw) ==
  SumSeq([ mi \in 1..Len(raw.modules) |->
           SumSeq([ li \in 1..Len(raw.modules[mi].lessons) |->
                    Len(imagePlans(raw.modules[mi].lessons[li])) ]) ])

\* C15: for an outline with at least one lesson the plan returned, whether
\* built from the answer of the planning call or by the fallback, holds at
\* least one image; for an outline of one module with one lesson and an
\* answer without images it holds exactly one.
C15_AtLeastOneImage ==
  ppc = "returned" =>
    /\ totalLessons(pOutline) >= 1 => totalImages(pPlan) >= 1
    /\ Len(pOutline) = 1 /\ totalLessons(pOutline) = 1 /\ RawImageCount(pRaw) = 0 =>
         totalImages(pPlan) = 1

\* C16: no lesson of a plan generateCourseMediaPlan returns has more than
\* one image.
C16_AtMostOneImagePerLesson ==
  ppc = "returned" =>
    \A mi \in 1..Len(pPlan) : \A li \in 1..Len(pPlan[mi].lessons) :
      Len(pPlan[mi].lessons[li].images) <= 1

\* Images the parsed answer asks for on lesson lessonIndex of module
\* moduleIndex: none when it leaves the module or the lesson out, or gives
\* the legacy shape without a prompt.
RawRequested(rawModules, moduleIndex, lessonIndex) ==
  IF ~HasModulePlan(rawModules, moduleIndex) THEN 0
  ELSE LET lessonPlans == FindModulePlan(rawModules, moduleIndex).lessons
       IN  IF ~HasLessonPlan(lessonPlans, lessonIndex) THEN 0
           ELSE Len(imagePlans(FindLessonPlan(lessonPlans, lessonIndex)))

\* C17: in the validated plan (before the safety net) a lesson of the
\* outline has no more images than the parsed answer asked for on it; in
\* particular it has none when the answer leaves the lesson out or gives no
\* usable prompt for it.
C17_ValidationInventsNothing ==
  ppc = "validated" =>
    \A mi \in 1..Len(pOutline) : \A li \in 1..Len(pOutline[mi]) :
      Len(pPlan[mi].lessons[li].images) <= RawRequested(pRaw.modules, mi - 1, li - 1)

\* C18: every image of the plan a worker got from generateCourseMediaPlan,
\* and every media item the worker stored, has a placement of at least 1.
C18_PlacementAtLeastOne ==
  \A r \in Requests :
    /\ \A mi \in 1..Len(mediaPlan[r]) : \A li \in 1..Len(mediaPlan[r][mi].lessons) :
         \A k \in 1..Len(mediaPlan[r][mi].lessons[li].images) :
           mediaPlan[r][mi].lessons[li].images[k].placement >= 1
    /\ \A lessonId \in DOMAIN lessons :
         lessonId[1] = r =>
           \A k \in 1..Len(lessons[lessonId]) : lessons[lessonId][k].placement >= 1

\* The models of the fast tier come after (before) those of the grounded
\* tier in a sequence of attempts.
GroundedThenFast(tried) ==
  \A i, j \in 1..Len(tried) :
    i < j => ~(~isGroundingModel(tried[i].model) /\ isGroundingModel(tried[j].model))

FastThenGrounded(tried) ==
  \A i, j \in 1..Len(tried) :
    i < j => ~(isGroundingModel(tried[i].model) /\ ~isGroundingModel(tried[j].model))

\* C19: generateWithFallback tries the models of the grounded tier and then
\* the one of the fast tier when grounding is requested, the fast tier and
\* then the grounded tier when it is not; no model is tried twice, and when
\* every model failed each model of both tiers was tried.
C19_ModelOrder ==
  /\ IF useGrounding(gCaller) THEN GroundedThenFast(gTried) ELSE FastThenGrounded(gTried)
  /\ \A i, j \in 1..Len(gTried) : i # j => gTried[i].model # gTried[j].model
  /\ gpc = "threw" => Len(gTried) = Len(GROUNDING_MODELS) + Len(FALLBACK_MODELS)
  /\ Len(gTried) >= 1 =>
       isGroundingModel(gTried[1].model) = useGrounding(gCaller)

\* A call without grounding in which every model failed.
C19_Witness ==
  /\ gpc = "threw" /\ ~useGrounding(gCaller) /\ gCaller \in Callers
  /\ Len(gTried) = 3 /\ gTried[1].model = "gemini-2.5-flash-lite"

\* C20: generateCourse fails only when every model of the sequence has
\* failed (a failed attempt is always followed by the next model), and the
\* error it throws is then the last one a model raised.
C20_FailsOnlyWhenAllFailed ==
  /\ \A i \in 1..Len(gTried) :
       gTried[i].outcome # "ok" /\ i < Len(modelSequence(useGrounding(gCaller))) =>
         gpc = "loop" \/ Len(gTried) > i
  /\ gCaller = "generateCourse" /\ opc = "threw" =>
       /\ gpc = "threw"
       /\ Len(gTried) = Len(modelSequence(useGrounding(gCaller)))
       /\ \A i \in 1..Len(gTried) : gTried[i].outcome # "ok"
       /\ oError = gLastError

\* Images of lesson li of module mi in a plan (both counted from 1).
ImagesOf(plan, mi, li) == plan[mi].lessons[li].images

\* C28: when the validated plan of a parsed answer holds no image at all
\* and the first module has a first lesson, the plan returned has exactly
\* one image, on the first lesson of the first module, placed after
\* max(1, paragraphCount) of that lesson with a prompt derived from the
\* lesson itself (no further planning call), and no image anywhere else.
C28_SafetyNetSingleImage ==
  ppc = "returned" /\ pRaw.kind = "parsed"
    /\ totalImages(validatedPlan(pOutline, pRaw.modules)) = 0
    /\ Len(pOutline) > 0 /\ Len(pOutline[1]) > 0 =>
      /\ Len(ImagesOf(pPlan, 1, 1)) = 1
      /\ ImagesOf(pPlan, 1, 1)[1].placement =
           (IF paragraphCount(pOutline[1][1]) > 1 THEN paragraphCount(pOutline[1][1]) ELSE 1)
      /\ ImagesOf(pPlan, 1, 1)[1].imagePrompt = generateFallbackImagePrompt(pOutline[1][1])
      /\ \A mi \in 1..Len(pPlan) : \A li \in 1..Len(pPlan[mi].lessons) :
           << mi, li >> # << 1, 1 >> => ImagesOf(pPlan, mi, li) = << >>

\* The safety net acted on a first lesson without paragraphs, in an outline
\* whose answer listed the module and asked for no image.
C28_Witness ==
  /\ ppc = "returned" /\ pRaw.kind = "parsed" /\ Len(pRaw.modules) = 1
  /\ pOutline = << <<0>> >>
  /\ Len(ImagesOf(pPlan, 1, 1)) = 1 /\ ImagesOf(pPlan, 1, 1)[1].placement = 1

\* Modules of a plan holding at least one image.
ModulesWithImages(plan) ==
  { mi \in 1..Len(plan) : \E li \in 1..Len(plan[mi].lessons) : ImagesOf(plan, mi, li) # << >> }

\* C29: the plan built locally when the planning call throws, answers an
\* empty text or answers text that does not parse has at most one image in
\* a module, only on the module's first lesson, at most
\* ceil(totalLessons / 5) images in all, each placed after
\* max(1, paragraphCount) of its lesson.
C29_FallbackPlanShape ==
  ppc = "returned" /\ pRaw.kind \in {"throw", "empty", "unparsable"} =>
    /\ \A mi \in 1..Len(pPlan) : \A li \in 1..Len(pPlan[mi].lessons) :
         /\ Len(ImagesOf(pPlan, mi, li)) <= (IF li = 1 THEN 1 ELSE 0)
         /\ \A k \in 1..Len(ImagesOf(pPlan, mi, li)) :
              /\ ImagesOf(pPlan, mi, li)[k].placement >= 1
              /\ ImagesOf(pPlan, mi, li)[k].placement >= paragraphCount(pOutline[mi][li])
              /\ ImagesOf(pPlan, mi, li)[k].placement \in {1, paragraphCount(pOutline[mi][li])}
    /\ totalImages(pPlan) * 5 < totalLessons(pOutline) + 5
    /\ totalImages(pPlan) = Cardinality(ModulesWithImages(pPlan))

\* The fallback plan of an outline of two modules with lessons: the cap of
\* one image leaves the second module without an image.
C29_Witness ==
  /\ ppc = "returned" /\ pRaw.kind = "throw"
  /\ Len(pOutline) = 2 /\ Len(pOutline[1]) > 0 /\ Len(pOutline[2]) > 0
  /\ ModulesWithImages(pPlan) = {1}

\* C30: every attempt of generateWithFallback issues one generation call,
\* to the model the loop stands on; the call uses grounding only when the
\* caller asked for grounding and the model is of the grounded tier, and
\* the groundingUsed returned with an answer is true only in that case.
C30_OneCallGroundingOnlyOnGroundedTier ==
  /\ gpc \in {"loop", "returned", "threw"} =>
       /\ Len(gTried) = (IF gpc = "returned" THEN gNext ELSE gNext - 1)
       /\ \A i \in 1..Len(gTried) :
            /\ gTried[i].model = modelSequence(useGrounding(gCaller))[i]
            /\ gTried[i].grounded =>
                 useGrounding(gCaller) /\ isGroundingModel(gTried[i].model)
  /\ gpc = "returned" =>
       /\ gResult.model = gTried[Len(gTried)].model
       /\ gResult.groundingUsed = gTried[Len(gTried)].grounded
       /\ gResult.groundingUsed =>
            useGrounding(gCaller) /\ isGroundingModel(gResult.model)

\* A call that asked for grounding was answered by the model of the fast
\* tier, after both grounded attempts failed: groundingUsed is false.
C30_Witness ==
  /\ gpc = "returned" /\ useGrounding(gCaller)
  /\ Len(gTried) = 3 /\ gTried[1].grounded /\ gTried[2].grounded
  /\ ~gResult.groundingUsed /\ gResult.model = "gemini-2.5-flash-lite"

\* A run is scheduled for course r only by the handler that created it,
\* while it answers, and only if none was scheduled before; a run that
\* was scheduled is never forgotten.
ScheduledOnce(r) ==
  /\ wpc'[r] = "scheduled" /\ wpc[r] # "scheduled" => wpc[r] = "none" /\ pc[r] = "read"
  /\ wpc[r] # "none" => wpc'[r] # "none"

\* The media lists and the status of course r change only in a step of the
\* run of course r: no other run moves in that step.
OwnRunOnly(r) ==
  (\/ \E lessonId \in DOMAIN lessons : lessonId[1] = r /\ lessons'[lessonId] # lessons[lessonId]
   \/ courses[r].generationStatus # "absent" /\ courses'[r] # courses[r]) =>
    /\ wpc[r] \notin {"none", "scheduled", "done"}
    /\ \A q \in Requests \ {r} : wpc'[q] = wpc[q] /\ idx'[q] = idx[q]

\* C26: for every course at most one run is ever scheduled; the lesson and
\* course records of a course are changed by the run of that course only,
\* and no image of a plan is in a media list twice or in a lesson of
\* another course.
C26_OneRunPerCourse ==
  /\ [][\A r \in Requests : ScheduledOnce(r) /\ OwnRunOnly(r)]_vars
  /\ [](\A lessonId \in DOMAIN lessons : \A j \in 1..Len(lessons[lessonId]) :
          /\ lessons[lessonId][j].id[1] = lessonId[1]
          /\ Copies(lessonId, lessons[lessonId][j].id) = 1)

\* The runs of two courses both ended, each having appended to its own
\* lesson.
C26_Witness ==
  \A r \in Requests :
    /\ wpc[r] = "done" /\ imagesGenerated[r] >= 1
    /\ \E lessonId \in DOMAIN lessons : lessonId[1] = r /\ Len(lessons[lessonId]) >= 1

\* A caller of generateWithFallback is done with the response it got.
Handled(callers) ==
  gCaller \in callers /\ gpc = "returned" /\ opc \in {"returned", "threw"}

\* C21: generateCourse calls JSON.parse once when the text parses; when it
\* does not, it calls repairJSON once and JSON.parse a second and last
\* time, and when the repaired text does not parse either it throws, with
\* no further repair and no further model attempt.
C21_RepairOnceRetryOnce ==
  Handled({"generateCourse"}) /\ gResult.response.text # << >> =>
    /\ JSONParses(gResult.response.text) => oParses = 1 /\ oRepairs = 0
    /\ ~JSONParses(gResult.response.text) =>
         /\ oParses = 2 /\ oRepairs = 1
         /\ ~JSONParses(repairJSON(gResult.response.text)) => opc = "threw"
    /\ Len(gTried) = gNext /\ gTried[gNext].outcome = "ok"

\* The second model answered a text that does not parse: one repair, two
\* parses, and generateCourse threw.
C21_Witness ==
  /\ Handled({"generateCourse"}) /\ opc = "threw"
  /\ ~JSONParses(gResult.response.text) /\ gResult.response.text # << >>
  /\ oParses = 2 /\ oRepairs = 1 /\ Len(gTried) = 2

\* C22: regenerateModule and regenerateLesson return exactly when the
\* steps of generateCourse would return on the same response (read against
\* the shape each of them asks for), after the same calls of JSON.parse and
\* repairJSON; after a call in which every model failed they throw as
\* generateCourse does.
C22_RegenerateSamePipeline ==
  /\ Handled({"regenerateModule", "regenerateLesson"}) =>
       /\ (opc = "returned") = (generateCourseOutcome(gResult.response).pc = "returned")
       /\ oParses = generateCourseOutcome(gResult.response).parses
       /\ oRepairs = generateCourseOutcome(gResult.response).repairs
  /\ gCaller \in {"regenerateModule", "regenerateLesson"} /\ gpc = "threw" =>
       opc \in {"awaiting", "threw"}

\* An unescaped quote: a quote that is neither the first nor the last
\* character of the literal and has no backslash of its own before it.
RECURSIVE BackslashRun(_, _)
BackslashRun(text, i) ==
  IF i >= 1 /\ text[i] = Backslash THEN 1 + BackslashRun(text, i - 1) ELSE 0

DefectFree(text) ==
  \A i \in 2..(Len(text) - 1) : text[i] = Quote => BackslashRun(text, i - 1) % 2 = 1

\* C25: on a text without an unescaped quote inside the literal repairJSON
\* changes nothing, applied once or twice, and a text that parsed still
\* parses.
C25_RepairIdempotent ==
  rpc = "twice" /\ DefectFree(rInput) =>
    /\ rOnce = rInput
    /\ rTwice = rOnce
    /\ JSONParses(rInput) => JSONParses(rOnce) /\ JSONParses(rTwice)

\* repairJSON applied twice to a literal that holds an escaped quote.
C25_Witness ==
  /\ rpc = "twice" /\ rInput = << Quote, Backslash, Quote, Quote >>
  /\ DefectFree(rInput) /\ JSONParses(rTwice)

\* C27: a course record always carries a company id; a request on the
\* experience route for which getCompanyIdFromExperience answered null
\* creates no course.
C27_CourseNeedsCompany ==
  \A r \in Requests :
    /\ Status(r) # "absent" => courses[r].whopCompanyId # Null
    /\ body[r].route = "experience" /\ body[r].companyId = Null => Status(r) = "absent"

\* The creation request of r passed generatedCourseSchema.
Accepted(r) == pc[r] \notin {"idle", "rejected"}

\* C23: an outline that passed validation, in the creation request or in
\* generateCourse, has at least one module and no module without lessons
\* (what is in a lesson's title and content is not followed here).
C23_AcceptedOutlineNotEmpty ==
  /\ \A r \in Requests :
       Accepted(r) =>
         /\ Len(body[r].outline) >= 1
         /\ \A mi \in 1..Len(body[r].outline) : Len(body[r].outline[mi]) >= 1
  /\ gCaller = "generateCourse" /\ opc = "returned" =>
       oParsed.title /\ oParsed.payload = "full"

\* No record of course r is in storage.
NothingCreatedFor(r) ==
  /\ Status(r) = "absent"
  /\ \A m \in modules : m[1] # r
  /\ \A lessonId \in DOMAIN lessons : lessonId[1] # r

\* C24: a creation request whose body fails validation is answered with
\* the error and has created no course, module or lesson; a generate
\* request whose generation fails ends with the error (never with an
\* outline), no step of the generate route writes to storage, and storage
\* is empty as long as no creation request was accepted.
C24_FailureCreatesNothing ==
  /\ [](\A r \in Requests : pc[r] = "rejected" => NothingCreatedFor(r))
  /\ [](gpc = "threw" => opc \in {"awaiting", "threw"})
  /\ []((\A r \in Requests : ~Accepted(r)) => \A r \in Requests : NothingCreatedFor(r))
  /\ [][opc' # opc => UNCHANGED storageVars]_vars

\* Generation failed with every model, and the creation request that
\* followed was rejected: nothing is in storage.
C24_Witness ==
  /\ opc = "threw" /\ gpc = "threw"
  /\ pc["r1"] = "rejected"
  /\ \A r \in Requests : NothingCreatedFor(r)

\* C39: for a text with an unescaped quote inside the literal the result of
\* repairJSON differs from the text.
C39_RepairEscapesInnerQuote ==
  rpc \in {"once", "twice"} /\ ~DefectFree(rInput) => rOnce # rInput

\* ------------------------------------------------------------------------
\* The appended items and the frame of a run
\* ------------------------------------------------------------------------

\* The item with the id << r, k >> is the one of entry k of the walk of r.
ItemOfEntry(r, k, item) ==
  LET e == Entries(r)[k]
  IN  /\ item.type = "image"
      /\ item.prompt = e.imagePlan.imagePrompt
      /\ item.alt = e.imagePlan.imageAlt
      /\ item.placement = e.imagePlan.placement

\* A step of the walk of r that changes a media list appends one item to
\* the lesson created for the entry the walk is at, an item whose id no item
\* of that list had, and changes no other list.
AppendsToOwnLesson(r) ==
  wpc[r] = "walk" /\ lessons' # lessons =>
    LET lessonId == LessonOf(r, idx[r])
    IN  /\ lessonId \in DOMAIN lessons
        /\ << Entries(r)[idx[r]].moduleIndex, Entries(r)[idx[r]].lessonIndex >>
             \in createdLessons[r]
        /\ Len(lessons'[lessonId]) = Len(lessons[lessonId]) + 1
        /\ SubSeq(lessons'[lessonId], 1, Len(lessons[lessonId])) = lessons[lessonId]
        /\ lessons'[lessonId][Len(lessons'[lessonId])].id \notin MediaIds(lessonId)
        /\ ItemOfEntry(r, idx[r], lessons'[lessonId][Len(lessons'[lessonId])])
        /\ \A other \in DOMAIN lessons \ {lessonId} : lessons'[other] = lessons[other]

\* C31: each image the worker appends goes to the lesson created for the
\* (moduleIndex, lessonIndex) of its plan entry and to no other lesson; the
\* appended item has type image, the prompt, alt and placement of the entry,
\* and an id no other item of that media list has.
C31_AppendedToItsLesson ==
  /\ [][\A r \in Requests : AppendsToOwnLesson(r)]_vars
  /\ [](\A lessonId \in DOMAIN lessons : \A j \in 1..Len(lessons[lessonId]) :
          LET item == lessons[lessonId][j]
          IN  /\ lessonId = LessonOf(item.id[1], item.id[2])
              /\ ItemOfEntry(item.id[1], item.id[2], item)
              /\ Copies(lessonId, item.id) = 1)

\* A walk that ended having appended to two lessons, one of them the second
\* lesson of the plan, with a prompt kept on the item.
C31_Witness ==
  \E r \in Requests :
    /\ wpc[r] = "notify"
    /\ \E a, b \in DOMAIN lessons :
         /\ a # b /\ lessons[a] # << >> /\ lessons[b] # << >>
         /\ lessons[b][1].prompt # NoPrompt /\ lessons[b][1].id[2] > 1

\* The media list before is the beginning of the media list after.
Extends(before, after) ==
  Len(before) <= Len(after) /\ SubSeq(after, 1, Len(before)) = before

\* What a step of the run of r leaves as it was: the records that exist
\* (courses, modules, lessons), every field of its course but the status,
\* what the request created (outline with titles and content, created
\* lessons), every item already in a media list of its course, and all
\* records of the other courses.
RunFrame(r) ==
  /\ modules' = modules
  /\ DOMAIN lessons' = DOMAIN lessons
  /\ body' = body /\ createdLessons' = createdLessons
  /\ courses[r].generationStatus = "absent" => courses'[r] = courses[r]
  /\ courses'[r].generationStatus # "absent"
       => courses'[r] = [courses[r] EXCEPT !.generationStatus = courses'[r].generationStatus]
  /\ \A q \in Requests \ {r} : courses'[q] = courses[q]
  /\ \A lessonId \in DOMAIN lessons :
       IF lessonId[1] = r THEN Extends(lessons[lessonId], lessons'[lessonId])
       ELSE lessons'[lessonId] = lessons[lessonId]

\* C32: a step of a run changes only media lists of lessons of its own
\* course, by appending, and the generationStatus of its course; no course,
\* module or lesson goes away, no item already in a media list is removed
\* or rewritten, and the outline (titles, content, order) and every record
\* of the other courses stay as they were.
C32_RunFrame ==
  [][\A r \in Requests : WorkerStep(r) => RunFrame(r)]_vars

\* Both runs ended with their courses complete, one of them having appended
\* a second item behind the first in a media list, the other course's lesson
\* holding its own item.
C32_Witness ==
  /\ \A r \in Requests : wpc[r] = "done" /\ Status(r) = "complete"
  /\ \E a, b \in DOMAIN lessons :
       a[1] # b[1] /\ Len(lessons[a]) >= 2 /\ Len(lessons[b]) >= 1

\* ------------------------------------------------------------------------
\* The end of a run
\* ------------------------------------------------------------------------

\* A notification of r is sent in this step.
Notifies(r) == notifications'[r] # notifications[r]

\* C34: a run sends at most one notification, and sends it only when the
\* status of its course has been written as "complete" before.
C34_OneNotificationAfterComplete ==
  /\ [](\A r \in Requests :
          /\ Len(notifications[r]) <= 1
          /\ notifications[r] # << >> => statusWrites[r] >= 1 /\ Status(r) = "complete")
  /\ [][\A r \in Requests :
          Notifies(r) => /\ notifications[r] = << >>
                         /\ statusWrites[r] >= 1
                         /\ Status(r) = "complete"]_vars

\* A run that ended through the outer catch after its first status write
\* was rejected, and sent its notification.
C34_Witness ==
  \E r \in Requests :
    /\ wpc[r] = "done" /\ Len(notifications[r]) = 1
    /\ notifications[r][1].title = "Course Created"
    /\ idx[r] > Len(calls[r]) /\ imagesGenerated[r] >= 1

\* Image k of the walk of r was appended to its lesson or recorded as failed.
Accounted(r, k) ==
  \/ k \in failed[r]
  \/ Copies(LessonOf(r, k), << r, k >>) = 1

FullyWalked(r) ==
  /\ idx[r] > Len(calls[r])
  /\ \A k \in 1..Len(calls[r]) : Accounted(r, k)

\* The walk of r was left at an image that had its URL: the append was
\* rejected, the image is neither in a media list nor counted as failed,
\* and the images behind it were never requested.
LeftByRejectedAppend(r) ==
  /\ wpc[r] \in {"catchNotify", "done"}
  /\ idx[r] <= Len(calls[r])
  /\ imageUrl[r] # Null /\ ~Accounted(r, idx[r])
  /\ \A k \in Settled(r) : Accounted(r, k)
  /\ \A k \in (idx[r] + 1)..Len(calls[r]) : calls[r][k] = << >> /\ ~Accounted(r, k)

\* No image of r is requested or appended in this step.
WalkIdle(r) ==
  /\ calls'[r] = calls[r]
  /\ \A lessonId \in DOMAIN lessons : lessonId[1] = r => lessons'[lessonId] = lessons[lessonId]

\* C35 as stated: the status of a course is "complete" only when every
\* image of the plan was appended or recorded as failed, and no image is
\* requested or appended once the status is "complete".
C35_CompleteOnlyAfterFullWalk ==
  /\ [](\A r \in Requests : Status(r) = "complete" /\ wpc[r] # "none" => FullyWalked(r))
  /\ [][\A r \in Requests : Status(r) = "complete" => WalkIdle(r)]_vars

\* C35 amended: the status of a course is "complete" only when the walk has
\* ended, either with every image of the plan appended or recorded as
\* failed, or left for the catch clause by a rejected storage call with the
\* remaining images never requested; no image is requested or appended once
\* the status is "complete".
C35_CompleteOnlyAfterWalkEnded ==
  /\ [](\A r \in Requests :
          Status(r) = "complete" /\ wpc[r] # "none" =>
            /\ wpc[r] \in {"notify", "catchNotify", "done"}
            /\ FullyWalked(r) \/ LeftByRejectedAppend(r)
            /\ wpc[r] = "notify" => FullyWalked(r))
  /\ [][\A r \in Requests : Status(r) = "complete" => WalkIdle(r)]_vars

\* A complete course whose walk took two images to the end, one appended
\* and one failed.
C35_Witness ==
  \E r \in Requests :
    /\ Status(r) = "complete" /\ wpc[r] = "notify"
    /\ Len(calls[r]) >= 2 /\ FullyWalked(r)
    /\ imagesGenerated[r] >= 1 /\ imagesFailed[r] >= 1

\* The handler of r has not answered yet and may still schedule the run.
HandlerAtWork(r) == pc[r] \in {"course", "creating", "read"}

RunPending(r) == wpc[r] \in {"scheduled", "planning", "walk", "catch"}

\* C36: a course whose status is "generating" has a run scheduled or in
\* progress, or a creation handler still at work that will schedule it; a
\* creation request that failed after the course was written leaves no
\* course "generating" without a run.
C36_GeneratingHasRun ==
  \A r \in Requests : Status(r) = "generating" => RunPending(r) \/ HandlerAtWork(r)

\* ------------------------------------------------------------------------
\* Runs and editor requests on the same lesson
\* ------------------------------------------------------------------------

\* The ids of the items the worker appended that this step takes out of the
\* media list of a lesson.
LostWorkerItems(lessonId) ==
  { id \in MediaIds(lessonId) :
      /\ id[1] \in Requests
      /\ \A j \in 1..Len(lessons'[lessonId]) : lessons'[lessonId][j].id # id }

\* The ids of the items in the list the editor request read.
ReadIds == { edit.media[j].id : j \in 1..Len(edit.media) }

\* The write of an add-media request takes no item of the worker out of the
\* list; the write of a delete request takes out none but the item it
\* names, which is one of the list it read.
EditKeepsWorkerItems ==
  edit.phase = "read" /\ edit'.phase = "none" /\ edit.lesson \in DOMAIN lessons =>
    IF edit.kind = "add" THEN LostWorkerItems(edit.lesson) = {}
    ELSE LostWorkerItems(edit.lesson) \subseteq ReadIds

\* C37: every item the worker appended to a lesson stays in the media list
\* of that lesson to the end of the run, however the run interleaves with
\* add-media requests and with delete requests for other items of the same
\* lesson: no write of such a request takes an item of the worker out of
\* the list.
C37_WorkerItemsSurviveEdits ==
  [][EditKeepsWorkerItems]_vars

\* ------------------------------------------------------------------------
\* The counters of a run
\* ------------------------------------------------------------------------

\* The images of the plan of r, whether or not the walk finds their lesson.
PlannedImages(r) ==
  SumSeq([ mi \in 1..Len(mediaPlan[r]) |->
           SumSeq([ li \in 1..Len(mediaPlan[r][mi].lessons) |->
                    Len(imagePlans(mediaPlan[r][mi].lessons[li])) ]) ])

\* The step counts an image of r as generated.
CountsSuccess(r) == imagesGenerated'[r] = imagesGenerated[r] + 1

\* The step puts the item of the image the walk of r is at into the media
\* list of its lesson.
ItemAdded(r) ==
  LET lessonId == LessonOf(r, idx[r])
  IN  /\ lessonId \in DOMAIN lessons'
      /\ lessons'[lessonId] # << >>
      /\ lessons'[lessonId][Len(lessons'[lessonId])].id = << r, idx[r] >>

\* C38: when the walk of a run has ended, its success counter plus its
\* failure counter is the number of images of the plan; the count in the
\* "Course Ready!" notification is the success counter, and the success
\* counter goes up only in a step that adds an item to a media list, so
\* that the count reported is the number of items the run added.
C38_CountersMatch ==
  /\ [](\A r \in Requests :
          /\ wpc[r] = "notify" => imagesGenerated[r] + imagesFailed[r] = PlannedImages(r)
          /\ \A n \in 1..Len(notifications[r]) :
               notifications[r][n].title = "Course Ready!" =>
                 notifications[r][n].images = imagesGenerated[r])
  /\ [][\A r \in Requests : CountsSuccess(r) => ItemAdded(r)]_vars

\* ------------------------------------------------------------------------
\* The image service
\* ------------------------------------------------------------------------

ImagePollsBounded == iPolls <= maxAttempts /\ iAttempt <= maxAttempts

\* The loop of the call ran out of attempts.
PollsExhausted == iAttempt = maxAttempts

ImageTerminates == (ipc # "idle") ~> (ipc = "returned")

\* C33 as stated: a call of the image service ends, after at most 60
\* status fetches, and it returns null whenever the attempts ran out or a
\* step of it threw.
C33_TerminatesWithNull ==
  /\ [](ImagePollsBounded)
  /\ [](ipc = "returned" /\ (PollsExhausted \/ iThrown # "none") => iResult = Null)
  /\ ImageTerminates

\* C33 amended: a call of the image service ends, after at most 60 status
\* fetches; it returns null when the attempts ran out or when the submit
\* or a status fetch threw, and the URL the service gave when the download
\* of the finished image threw; it never ends by throwing.
C33_TerminatesWithoutRaising ==
  /\ [](ImagePollsBounded)
  /\ [](ipc = "returned" =>
          /\ PollsExhausted \/ iThrown \in {"submit", "poll"} => iResult = Null
          /\ iThrown = "download" => iResult = "resultUrl"
          /\ iResult \in {Null, "dataUrl", "resultUrl"})
  /\ ImageTerminates

\* A call that returned null after 60 status fetches none of which threw.
C33_Witness ==
  ipc = "returned" /\ iPolls = maxAttempts /\ PollsExhausted /\ iThrown = "none"

\* ------------------------------------------------------------------------
\* Payment verification
\* ------------------------------------------------------------------------

\* C40: for one checkout the creator's earnings and the platform's earnings
\* are credited at most once and access to the course is granted at most
\* once, however the steps of concurrent verify requests interleave.
C40_CreditedOnce ==
  creatorCredits <= 1 /\ platformCredits <= 1 /\ accessRows <= 1
====
